---- MODULE Spec2Model ----
(***************************************************************************)
(* Token lifecycle, distributed lock, authenticated request executor,      *)
(* request deduplicator and positional-field normalisation of the Sankhya  *)
(* proxy (src/lib/sankhya-api.ts, src/lib/produtos-service.ts).            *)
(*                                                                         *)
(* Time is in milliseconds, as Date.now().  Every await of the source is a *)
(* suspension point: an action performs the effect of the operation the    *)
(* invocation is suspended on, followed by the synchronous continuation up *)
(* to the next await.  Reads of the credential are split in two (the store *)
(* read, then the continuation that calls Date.now()), so that time may    *)
(* pass between the read and the validity check.                           *)
(***************************************************************************)
EXTENDS Integers, Sequences, FiniteSets, TLC

(* ------------------------------ bounds --------------------------------- *)
MaxTicks == 1
MaxLoginFail == 1

Inv == {1, 2}
Procs == {"p1", "p2"}
TickSteps == {500, 25000, 1200000}

MaxSoloFail == 5

(* ------------------------- program constants --------------------------- *)
LOCK_TTL == 30000
MAX_LOCK_WAIT == 25000
POLL_MS == 500
TOKEN_LIFE_MS == 20 * 60 * 1000
TOKEN_TTL_S == 20 * 60
LOGIN_MAX_RETRIES == 3
LOGIN_RETRY_DELAY == 1000

VARIABLES
    now,            \* Date.now(), in milliseconds
    ticks,          \* number of clock advances so far
    cred,           \* the store's entry 'sankhya:token'
    lock,           \* the store's entry 'sankhya:token:lock'
    tokenPromise,   \* per process: the module variable tokenPromise
    call,           \* per obterToken invocation: its position and locals
    loginCalls,     \* number of POSTs sent to the login endpoint
    loginFails,     \* number of login failures so far
    inval,          \* position of the running invalidarToken call, if any
    invalidated     \* whether invalidarToken was ever called

tokVars == <<now, ticks, cred, lock, tokenPromise, call, loginCalls, loginFails,
             inval, invalidated>>

VARIABLES
    req,                \* the running call of sankhya-api's fazerRequisicaoAutenticada
    pendingRequests,    \* produtos-service: the map pendingRequests
    op,                 \* produtos-service: the fetcher invocations registered in it
    caller,             \* produtos-service: the callers of dedupedRequest
    globalCachedToken,  \* produtos-service: the module variable globalCachedToken
    redisGlobalToken    \* the store's entry 'sankhya_global_token'

execVars == <<req, pendingRequests, op, caller, globalCachedToken, redisGlobalToken>>

VARIABLES
    fieldNames,     \* entities.metadata.fields.field.map(f => f.name)
    rawEntity,      \* one element of entities.entity: slot i is its property f<i>
    index,          \* the element's position in entities.entity
    mapper,         \* which function maps it: mapearEntidades or mapearParceiros
    cleanObject     \* the record returned for the element, once mapped

normVars == <<fieldNames, rawEntity, index, mapper, cleanObject>>

VARIABLES
    invalEnd        \* how the latest invalidarToken call ended ("none": none has, or one is running)

VARIABLES
    fetcher,        \* the cache-aside fetcher that is running, or that ran last
    fpc,            \* its position
    fdown,          \* what the downstream answered to it: "none", "ok", "failed"
    fresult,        \* what it returned or threw
    cacheEntry      \* per fetcher: the store's entry under the request's cache key

fetchVars == <<fetcher, fpc, fdown, fresult, cacheEntry>>

VARIABLES
    ofn,            \* the produtos-service fetcher that two overlapping calls are of
    ocall,          \* per call: its position, what it read, what it got
    oentry,         \* the store's entry under the calls' cache key
    ohandle,        \* pendingRequests' entry under the calls' request key (0: none)
    oqueries        \* outbound queries issued for the key so far

VARIABLES
    pcall,          \* per consultarParceiros call: its arguments, cache key, filter, what it returned
    pcache          \* the store's entries under 'parceiros:list:...' keys

parVars == <<pcall, pcache>>

qVars == <<ofn, ocall, oentry, ohandle, oqueries, parVars>>

svcVars == <<invalEnd, fetchVars, qVars>>

vars == <<tokVars, execVars, normVars, svcVars>>

(* ------------------------------ the store ------------------------------ *)
NoCred == [token |-> 0, expiresAt |-> 0, storeExp |-> 0]
NoLock == [owner |-> 0, storeExp |-> 0]
NoData == [token |-> 0, expiresAt |-> 0]
NoPromise == <<0, 0>>

\* cacheService.set(key, value, ttlSeconds): the entry lives ttl seconds
StoreExp(t, ttlSeconds) == t + ttlSeconds * 1000

\* cacheService.get(key): an entry past its time-to-live reads as null
CacheGetCred(c, t) == IF c.token # 0 /\ t < c.storeExp
                        THEN [token |-> c.token, expiresAt |-> c.expiresAt]
                        ELSE NoData

CacheGetLock(l, t) == IF l.owner # 0 /\ t < l.storeExp THEN l ELSE NoLock

TokenValid_NoExpiry(td, t) == td.token # 0

\* tokenData && tokenData.token && (tokenData.expiresAt - Date.now()) > 0
TokenValid(td, t) == td.token # 0 /\ td.expiresAt - t > 0


\* cacheService.delete(key)
CacheDeleteCred(c) == NoCred
CacheDeleteLock(l) == NoLock

(* --------------------------- obterToken ------------------------------- *)
NewCall == [pc |-> "idle", proc |-> "p1", force |-> FALSE, retry |-> 0, iife |-> 0,
            tokenData |-> NoData, lockStart |-> 0, wakeAt |-> 0, awaitP |-> NoPromise,
            loginErr |-> "none", minted |-> NoData, myLogin |-> 0,
            lockHeld |-> FALSE, acquired |-> FALSE, deleteIssued |-> FALSE,
            sawCrashedLock |-> FALSE,
            outcome |-> "pending", ret |-> 0, how |-> "none", staleReturn |-> FALSE,
            preToken |-> 0, oldForced |-> FALSE]

Live(i) == call[i].pc \notin {"idle", "done", "crashed"}

\* A return or throw of the current obterToken call.  Inside the async block
\* stored in tokenPromise (or inside a retry started from its catch) the
\* finally block runs first: tokenPromise = null, then the lock delete is issued.
Settle(c, oc, tok, hw) ==
    [c EXCEPT !.outcome = oc, !.ret = tok, !.how = hw,
              !.oldForced = (c.force /\ tok # 0 /\ tok = c.preToken), !.preToken = 0,
              !.tokenData = NoData, !.lockStart = 0, !.wakeAt = 0, !.myLogin = 0,
              !.retry = 0,
              !.pc = IF c.iife = 0 THEN "done" ELSE "finallyDel"]

\* a finally block that leaves tokenPromise as it is
PromiseAfterSettle_Kept(c) == tokenPromise

PromiseAfterSettle(c) ==
    IF c.iife = 0 THEN tokenPromise ELSE [tokenPromise EXCEPT ![c.proc] = NoPromise]

\* obterToken(forceRefresh, 0) is called in process p
Call(i) ==
    /\ call[i].pc = "idle"
    /\ \A j \in Inv : j < i => call[j].pc # "idle"
    /\ \E p \in Procs, f \in BOOLEAN :
         /\ p = "p1" \/ \E j \in Inv : call[j].pc # "idle"
         /\ call' = [call EXCEPT ![i] = [NewCall EXCEPT !.proc = p, !.force = f,
                                           !.preToken = IF f THEN cred.token ELSE 0,
                                           !.pc = IF f THEN "forceDel" ELSE "fastGet"]]
    /\ UNCHANGED <<now, ticks, cred, lock, tokenPromise, loginCalls, loginFails, inval, invalidated>>
    /\ UNCHANGED <<execVars, normVars, svcVars>>

\* if (forceRefresh) await cacheService.delete(TOKEN_CACHE_KEY)
ForceRefreshDelete_Skipped(c) == c

\* await cacheService.delete(TOKEN_CACHE_KEY)
ForceRefreshDelete(c) == CacheDeleteCred(c)

ForceDelete(i) ==
    /\ call[i].pc = "forceDel"
    /\ cred' = ForceRefreshDelete(cred)
    /\ call' = [call EXCEPT ![i].pc = "fastGet"]
    /\ UNCHANGED <<now, ticks, lock, tokenPromise, loginCalls, loginFails, inval, invalidated>>
    /\ UNCHANGED <<execVars, normVars, svcVars>>

\* let tokenData = await cacheService.get(TOKEN_CACHE_KEY)
FastGet(i) ==
    /\ call[i].pc = "fastGet"
    /\ call' = [call EXCEPT ![i].pc = "fastChk", ![i].tokenData = CacheGetCred(cred, now)]
    /\ UNCHANGED <<now, ticks, cred, lock, tokenPromise, loginCalls, loginFails, inval, invalidated>>
    /\ UNCHANGED <<execVars, normVars, svcVars>>

\* cacheService.get(TOKEN_CACHE_KEY) rejects: nothing catches it before the
\* lock is taken, so obterToken rejects with the store's error
FastGetFails(i) ==
    /\ call[i].pc = "fastGet"
    /\ call' = [call EXCEPT ![i] = Settle(call[i], "errStore", 0, "throw")]
    /\ tokenPromise' = PromiseAfterSettle(call[i])
    /\ UNCHANGED <<now, ticks, cred, lock, loginCalls, loginFails, inval, invalidated>>
    /\ UNCHANGED <<execVars, normVars, svcVars>>

FastPathValid_Never(td, t, f) == FALSE

\* fast path; otherwise await the running tokenPromise; otherwise enter the lock loop
FastPathValid(td, t, f) == TokenValid(td, t) /\ ~f

FastCheck(i) ==
    LET c == call[i] IN
    /\ c.pc = "fastChk"
    /\ IF FastPathValid(c.tokenData, now, c.force)
         THEN /\ call' = [call EXCEPT ![i] = Settle([c EXCEPT !.staleReturn = ~(c.tokenData.expiresAt > now)], "token", c.tokenData.token, "fast")]
              /\ tokenPromise' = PromiseAfterSettle(c)
         ELSE IF tokenPromise[c.proc] # NoPromise
           THEN /\ call' = [call EXCEPT ![i].pc = "awaitTP", ![i].awaitP = tokenPromise[c.proc],
                                         ![i].tokenData = NoData]
                /\ UNCHANGED tokenPromise
           ELSE /\ call' = [call EXCEPT ![i].pc = "lockGet", ![i].lockStart = now,
                                         ![i].tokenData = NoData]
                /\ UNCHANGED tokenPromise
    /\ UNCHANGED <<now, ticks, cred, lock, loginCalls, loginFails, inval, invalidated>>
    /\ UNCHANGED <<execVars, normVars, svcVars>>

\* return tokenPromise: the caller settles as the awaited async block settles
AwaitPromise(i) ==
    LET c == call[i]
        j == c.awaitP[1]
    IN
    /\ c.pc = "awaitTP"
    /\ call[j].pc # "crashed"
    /\ call[j].iife < c.awaitP[2]
    /\ call' = [call EXCEPT ![i] = Settle([c EXCEPT !.awaitP = NoPromise],
                                           call[j].outcome, call[j].ret, "promise")]
    /\ tokenPromise' = PromiseAfterSettle(c)
    /\ UNCHANGED <<now, ticks, cred, lock, loginCalls, loginFails, inval, invalidated>>
    /\ UNCHANGED <<execVars, normVars, svcVars>>


\* while (!lockAcquired && (Date.now() - lockStart) < MAX_LOCK_WAIT)
LoopContinues(t, start) == t - start < MAX_LOCK_WAIT

\* if (!existing)
LockFree(existing) == existing.owner = 0

\* tokenPromise = (async () => { ... axiosInstance.post(ENDPOINT_LOGIN ...) ... })()
StartLogin(i, c) ==
    /\ call' = [call EXCEPT ![i] = [c EXCEPT !.pc = "login", !.iife = c.iife + 1,
                                             !.myLogin = loginCalls + 1, !.tokenData = NoData]]
    /\ tokenPromise' = [tokenPromise EXCEPT ![c.proc] = <<i, c.iife + 1>>]
    /\ loginCalls' = loginCalls + 1

\* const existing = await cacheService.get(LOCK_KEY)
LockGet(i) ==
    LET c == call[i]
        existing == CacheGetLock(lock, now)
    IN
    /\ c.pc = "lockGet"
    /\ IF LockFree(existing)
         THEN call' = [call EXCEPT ![i].pc = "lockSet"]
         ELSE call' = [call EXCEPT ![i].pc = "waitGet", ![i].wakeAt = now + POLL_MS,
                                   ![i].sawCrashedLock = (c.sawCrashedLock \/ call[existing.owner].pc = "crashed")]
    /\ UNCHANGED <<now, ticks, cred, lock, tokenPromise, loginCalls, loginFails, inval, invalidated>>
    /\ UNCHANGED <<execVars, normVars, svcVars>>

\* await cacheService.set(LOCK_KEY, lockValue, LOCK_TTL); lockAcquired = true; break
\* then the double-check read is issued, or with forceRefresh the login
LockSet(i) ==
    LET c == call[i]
        h == [c EXCEPT !.lockHeld = TRUE, !.acquired = TRUE, !.lockStart = 0, !.wakeAt = 0]
    IN
    /\ c.pc = "lockSet"
    /\ lock' = [owner |-> i, storeExp |-> StoreExp(now, LOCK_TTL)]
    /\ IF ~c.force
         THEN /\ call' = [call EXCEPT ![i] = [h EXCEPT !.pc = "dblGet"]]
              /\ UNCHANGED <<tokenPromise, loginCalls>>
         ELSE StartLogin(i, h)
    /\ UNCHANGED <<now, ticks, cred, loginFails, inval, invalidated>>
    /\ UNCHANGED <<execVars, normVars, svcVars>>

\* await setTimeout(500); tokenData = await cacheService.get(TOKEN_CACHE_KEY)
WaitGet(i) ==
    /\ call[i].pc = "waitGet"
    /\ now >= call[i].wakeAt
    /\ call' = [call EXCEPT ![i].pc = "waitChk", ![i].tokenData = CacheGetCred(cred, now)]
    /\ UNCHANGED <<now, ticks, cred, lock, tokenPromise, loginCalls, loginFails, inval, invalidated>>
    /\ UNCHANGED <<execVars, normVars, svcVars>>

\* the token appeared while waiting: issue the lock delete; otherwise loop or give up
WaitPathValid(td, t) == TokenValid(td, t)

WaitCheck(i) ==
    LET c == call[i] IN
    /\ c.pc = "waitChk"
    /\ IF WaitPathValid(c.tokenData, now)
         THEN call' = [call EXCEPT ![i].pc = "waitDel", ![i].staleReturn = ~(c.tokenData.expiresAt > now),
                                   ![i].lockStart = 0, ![i].wakeAt = 0]
         ELSE IF LoopContinues(now, c.lockStart)
           THEN call' = [call EXCEPT ![i].pc = "lockGet", ![i].tokenData = NoData]
           ELSE call' = [call EXCEPT ![i].pc = "toGet", ![i].tokenData = NoData,
                                     ![i].lockStart = 0, ![i].wakeAt = 0]
    /\ UNCHANGED <<now, ticks, cred, lock, tokenPromise, loginCalls, loginFails, inval, invalidated>>
    /\ UNCHANGED <<execVars, normVars, svcVars>>

\* await cacheService.delete(LOCK_KEY).catch(() => {}); return tokenData.token
WaitDelete(i) ==
    LET c == call[i] IN
    /\ c.pc = "waitDel"
    /\ lock' = CacheDeleteLock(lock)
    /\ call' = [call EXCEPT ![i] = Settle(c, "token", c.tokenData.token, "wait")]
    /\ tokenPromise' = PromiseAfterSettle(c)
    /\ UNCHANGED <<now, ticks, cred, loginCalls, loginFails, inval, invalidated>>
    /\ UNCHANGED <<execVars, normVars, svcVars>>

\* if (!lockAcquired) tokenData = await cacheService.get(TOKEN_CACHE_KEY)
TimeoutGet(i) ==
    /\ call[i].pc = "toGet"
    /\ call' = [call EXCEPT ![i].pc = "toChk", ![i].tokenData = CacheGetCred(cred, now)]
    /\ UNCHANGED <<now, ticks, cred, lock, tokenPromise, loginCalls, loginFails, inval, invalidated>>
    /\ UNCHANGED <<execVars, normVars, svcVars>>

TimeoutPathValid_Never(td, t) == FALSE

TimeoutPathValid(td, t) == TokenValid(td, t)

\* return the token if valid, else throw "timeout ao aguardar lock"
TimeoutCheck(i) ==
    LET c == call[i] IN
    /\ c.pc = "toChk"
    /\ IF TimeoutPathValid(c.tokenData, now)
         THEN call' = [call EXCEPT ![i] = Settle([c EXCEPT !.staleReturn = ~(c.tokenData.expiresAt > now)], "token", c.tokenData.token, "timeout")]
         ELSE call' = [call EXCEPT ![i] = Settle(c, "errLockTimeout", 0, "throw")]
    /\ tokenPromise' = PromiseAfterSettle(c)
    /\ UNCHANGED <<now, ticks, cred, lock, loginCalls, loginFails, inval, invalidated>>
    /\ UNCHANGED <<execVars, normVars, svcVars>>

\* holding the lock, if (!forceRefresh): tokenData = await cacheService.get(TOKEN_CACHE_KEY)
DoubleGet(i) ==
    /\ call[i].pc = "dblGet"
    /\ call' = [call EXCEPT ![i].pc = "dblChk", ![i].tokenData = CacheGetCred(cred, now)]
    /\ UNCHANGED <<now, ticks, cred, lock, tokenPromise, loginCalls, loginFails, inval, invalidated>>
    /\ UNCHANGED <<execVars, normVars, svcVars>>

DoublePathValid_Never(td, t) == FALSE

DoublePathValid(td, t) == TokenValid(td, t)

DoubleCheck(i) ==
    LET c == call[i] IN
    /\ c.pc = "dblChk"
    /\ IF DoublePathValid(c.tokenData, now)
         THEN /\ call' = [call EXCEPT ![i].pc = "dblDel", ![i].staleReturn = ~(c.tokenData.expiresAt > now)]
              /\ UNCHANGED <<tokenPromise, loginCalls>>
         ELSE StartLogin(i, c)
    /\ UNCHANGED <<now, ticks, cred, lock, loginFails, inval, invalidated>>
    /\ UNCHANGED <<execVars, normVars, svcVars>>

ReleaseOnDoubleCheck_Skipped(l) == l

\* await cacheService.delete(LOCK_KEY); return tokenData.token
ReleaseOnDoubleCheck(l) == CacheDeleteLock(l)

DoubleDelete(i) ==
    LET c == call[i] IN
    /\ c.pc = "dblDel"
    /\ lock' = ReleaseOnDoubleCheck(lock)
    /\ call' = [call EXCEPT ![i] = Settle([c EXCEPT !.lockHeld = FALSE, !.deleteIssued = TRUE],
                                           "token", c.tokenData.token, "double")]
    /\ tokenPromise' = PromiseAfterSettle(c)
    /\ UNCHANGED <<now, ticks, cred, loginCalls, loginFails, inval, invalidated>>
    /\ UNCHANGED <<execVars, normVars, svcVars>>


LoginFailures == {"http500", "http503"}

\* the login endpoint answers with a bearer token:
\* expiresAt = Date.now() + 20 min; the credential set is issued
LoginOk(i) ==
    LET c == call[i] IN
    /\ c.pc = "login"
    /\ call' = [call EXCEPT ![i].pc = "credSet",
                            ![i].minted = [token |-> c.myLogin, expiresAt |-> now + TOKEN_LIFE_MS]]
    /\ UNCHANGED <<now, ticks, cred, lock, tokenPromise, loginCalls, loginFails, inval, invalidated>>
    /\ UNCHANGED <<execVars, normVars, svcVars>>

\* the login POST fails (HTTP error) or its body carries no token: the catch
\* block issues the lock delete
LoginFail(i) ==
    /\ call[i].pc = "login"
    /\ loginFails < MaxLoginFail
    /\ \E e \in LoginFailures : call' = [call EXCEPT ![i].pc = "catchDel", ![i].loginErr = e]
    /\ loginFails' = loginFails + 1
    /\ UNCHANGED <<now, ticks, cred, lock, tokenPromise, loginCalls, inval, invalidated>>
    /\ UNCHANGED <<execVars, normVars, svcVars>>

\* the login's failures when one caller is followed through all its retries:
\* an HTTP error, or a 200 whose body has neither bearerToken nor token
SoloFailures == LoginFailures \cup {"noToken"}

LoginFailSolo(i) ==
    /\ call[i].pc = "login"
    /\ loginFails < MaxSoloFail
    /\ \E e \in SoloFailures : call' = [call EXCEPT ![i].pc = "catchDel", ![i].loginErr = e]
    /\ loginFails' = loginFails + 1
    /\ UNCHANGED <<now, ticks, cred, lock, tokenPromise, loginCalls, inval, invalidated>>
    /\ UNCHANGED <<execVars, normVars, svcVars>>

\* await cacheService.set(TOKEN_CACHE_KEY, tokenData, 20 * 60); the
\* verification read that follows is only logged
CredSet(i) ==
    LET c == call[i] IN
    /\ c.pc = "credSet"
    /\ cred' = [token |-> c.minted.token, expiresAt |-> c.minted.expiresAt,
                storeExp |-> StoreExp(now, TOKEN_TTL_S)]
    /\ call' = [call EXCEPT ![i].pc = "okDel"]
    /\ UNCHANGED <<now, ticks, lock, tokenPromise, loginCalls, loginFails, inval, invalidated>>
    /\ UNCHANGED <<execVars, normVars, svcVars>>

\* await cacheService.delete(LOCK_KEY).catch(() => {}); return token;
\* finally { tokenPromise = null; ... }
ReleaseOnSuccess(l) == CacheDeleteLock(l)

LoginRelease(i) ==
    LET c == call[i] IN
    /\ c.pc = "okDel"
    /\ lock' = ReleaseOnSuccess(lock)
    /\ call' = [call EXCEPT ![i] = Settle([c EXCEPT !.lockHeld = FALSE, !.deleteIssued = TRUE,
                                                    !.minted = NoData],
                                           "token", c.minted.token, "login")]
    /\ tokenPromise' = PromiseAfterSettle(c)
    /\ UNCHANGED <<now, ticks, cred, loginCalls, loginFails, inval, invalidated>>
    /\ UNCHANGED <<execVars, normVars, svcVars>>

LoginRetryable_Any(e, rc) == rc < LOGIN_MAX_RETRIES

\* if (erro.response?.status === 500 && retryCount < MAX_RETRIES)
LoginRetryable(e, rc) == e = "http500" /\ rc < LOGIN_MAX_RETRIES

ReleaseOnError(l) == CacheDeleteLock(l)

\* catch: await cacheService.delete(LOCK_KEY).catch(() => {}); then either the
\* backoff sleep is started or the credential delete is issued
CatchRelease(i) ==
    LET c == call[i]
        r == [c EXCEPT !.lockHeld = FALSE, !.deleteIssued = TRUE]
    IN
    /\ c.pc = "catchDel"
    /\ lock' = ReleaseOnError(lock)
    /\ IF LoginRetryable(c.loginErr, c.retry)
         THEN call' = [call EXCEPT ![i] = [r EXCEPT !.pc = "retrySleep",
                                                    !.wakeAt = now + LOGIN_RETRY_DELAY * (c.retry + 1)]]
         ELSE call' = [call EXCEPT ![i] = [r EXCEPT !.pc = "errDel"]]
    /\ UNCHANGED <<now, ticks, cred, tokenPromise, loginCalls, loginFails, inval, invalidated>>
    /\ UNCHANGED <<execVars, normVars, svcVars>>

\* await new Promise(resolve => setTimeout(resolve, RETRY_DELAY * (retryCount + 1))):
\* the clock reaches the timer's time; entries past their time-to-live leave the store
BackoffElapses(i) ==
    LET c == call[i] IN
    /\ c.pc = "retrySleep"
    /\ now < c.wakeAt
    /\ now' = c.wakeAt
    /\ cred' = IF cred.token # 0 /\ c.wakeAt >= cred.storeExp THEN NoCred ELSE cred
    /\ lock' = IF lock.owner # 0 /\ c.wakeAt >= lock.storeExp THEN NoLock ELSE lock
    /\ UNCHANGED <<ticks, tokenPromise, call, loginCalls, loginFails, inval, invalidated>>
    /\ UNCHANGED <<execVars, normVars, svcVars>>

\* after the backoff: tokenPromise = null; return obterToken(forceRefresh, retryCount + 1)
RetryLogin(i) ==
    LET c == call[i] IN
    /\ c.pc = "retrySleep"
    /\ now >= c.wakeAt
    /\ tokenPromise' = [tokenPromise EXCEPT ![c.proc] = NoPromise]
    /\ call' = [call EXCEPT ![i].retry = c.retry + 1, ![i].loginErr = "none", ![i].wakeAt = 0,
                            ![i].pc = IF c.force THEN "forceDel" ELSE "fastGet"]
    /\ UNCHANGED <<now, ticks, cred, lock, loginCalls, loginFails, inval, invalidated>>
    /\ UNCHANGED <<execVars, normVars, svcVars>>

\* status 500 gives the service-unavailable error, anything else authentication-failed
LoginError(e) == IF e = "http500" THEN "errUnavailable" ELSE "errAuth"

\* await cacheService.delete(TOKEN_CACHE_KEY).catch(() => {}); tokenPromise = null; throw
ErrorDelete(i) ==
    LET c == call[i] IN
    /\ c.pc = "errDel"
    /\ cred' = CacheDeleteCred(cred)
    /\ call' = [call EXCEPT ![i] = Settle([c EXCEPT !.loginErr = "none"], LoginError(c.loginErr), 0, "throw")]
    /\ tokenPromise' = PromiseAfterSettle(c)
    /\ UNCHANGED <<now, ticks, lock, loginCalls, loginFails, inval, invalidated>>
    /\ UNCHANGED <<execVars, normVars, svcVars>>

\* finally { tokenPromise = null; await cacheService.delete(LOCK_KEY).catch(() => {}) }
\* of the innermost unsettled async block; its settling runs the enclosing
\* block's finally, if any
ReleaseInFinally(l) == CacheDeleteLock(l)

FinallyDelete(i) ==
    LET c == call[i]
        d == [c EXCEPT !.iife = c.iife - 1, !.deleteIssued = TRUE]
    IN
    /\ c.pc = "finallyDel"
    /\ lock' = ReleaseInFinally(lock)
    /\ IF d.iife = 0
         THEN /\ call' = [call EXCEPT ![i] = [d EXCEPT !.pc = "done"]]
              /\ UNCHANGED tokenPromise
         ELSE /\ call' = [call EXCEPT ![i] = d]
              /\ tokenPromise' = [tokenPromise EXCEPT ![c.proc] = NoPromise]
    /\ UNCHANGED <<now, ticks, cred, loginCalls, loginFails, inval, invalidated>>
    /\ UNCHANGED <<execVars, normVars, svcVars>>

(* ------------------------------ environment ---------------------------- *)
\* time passes; entries past their time-to-live leave the store
Tick ==
    /\ ticks < MaxTicks
    /\ \E i \in Inv : Live(i)
    /\ \E d \in TickSteps :
         /\ now' = now + d
         /\ cred' = IF cred.token # 0 /\ now + d >= cred.storeExp THEN NoCred ELSE cred
         /\ lock' = IF lock.owner # 0 /\ now + d >= lock.storeExp THEN NoLock ELSE lock
    /\ ticks' = ticks + 1
    /\ UNCHANGED <<tokenPromise, call, loginCalls, loginFails, inval, invalidated>>
    /\ UNCHANGED <<execVars, normVars, svcVars>>

\* the invocations suspended on a setTimeout that has not fired yet
Sleepers == {i \in Inv : call[i].pc \in {"waitGet", "retrySleep"} /\ now < call[i].wakeAt}

\* the earliest pending setTimeout fires: the clock is at its time, entries
\* past their time-to-live have left the store
TimerFires ==
    /\ Sleepers # {}
    /\ LET t == CHOOSE w \in {call[i].wakeAt : i \in Sleepers} :
                    \A i \in Sleepers : w <= call[i].wakeAt
       IN  /\ now' = t
           /\ cred' = IF cred.token # 0 /\ t >= cred.storeExp THEN NoCred ELSE cred
           /\ lock' = IF lock.owner # 0 /\ t >= lock.storeExp THEN NoLock ELSE lock
    /\ UNCHANGED <<ticks, tokenPromise, call, loginCalls, loginFails, inval, invalidated>>
    /\ UNCHANGED <<execVars, normVars, svcVars>>

\* the process of a running invocation dies: nothing it holds is released
Crash(p) ==
    /\ \E i \in Inv : Live(i) /\ call[i].proc = p
    /\ call' = [i \in Inv |-> IF Live(i) /\ call[i].proc = p
                                THEN [NewCall EXCEPT !.pc = "crashed", !.outcome = "crashed",
                                                     !.proc = p]
                                ELSE call[i]]
    /\ tokenPromise' = [tokenPromise EXCEPT ![p] = NoPromise]
    /\ UNCHANGED <<now, ticks, cred, lock, loginCalls, loginFails, inval, invalidated>>
    /\ UNCHANGED <<execVars, normVars, svcVars>>

\* invalidarToken: await cacheService.delete(TOKEN_CACHE_KEY)
InvalidarTokenCred ==
    /\ inval = "idle"
    /\ cred' = CacheDeleteCred(cred)
    /\ inval' = "delLock"
    /\ invalidated' = TRUE
    /\ invalEnd' = "none"
    /\ UNCHANGED <<now, ticks, lock, tokenPromise, call, loginCalls, loginFails>>
    /\ UNCHANGED <<execVars, normVars, fetchVars, qVars>>

\* invalidarToken: cacheService.delete(TOKEN_CACHE_KEY) rejects; the catch
\* block logs the error and the call returns, the lock delete not attempted
InvalidarTokenCredFails ==
    /\ inval = "idle"
    /\ invalidated' = TRUE
    /\ invalEnd' = "credDeleteFailed"
    /\ UNCHANGED <<now, ticks, cred, lock, tokenPromise, call, loginCalls, loginFails, inval>>
    /\ UNCHANGED <<execVars, normVars, fetchVars, qVars>>

\* invalidarToken: await cacheService.delete(LOCK_KEY)
InvalidarTokenLock ==
    /\ inval = "delLock"
    /\ lock' = CacheDeleteLock(lock)
    /\ inval' = "idle"
    /\ invalEnd' = "deleted"
    /\ UNCHANGED <<now, ticks, cred, tokenPromise, call, loginCalls, loginFails, invalidated>>
    /\ UNCHANGED <<execVars, normVars, fetchVars, qVars>>

\* invalidarToken: cacheService.delete(LOCK_KEY) rejects; the catch block
\* logs the error and the call returns
InvalidarTokenLockFails ==
    /\ inval = "delLock"
    /\ inval' = "idle"
    /\ invalEnd' = "lockDeleteFailed"
    /\ UNCHANGED <<now, ticks, cred, lock, tokenPromise, call, loginCalls, loginFails, invalidated>>
    /\ UNCHANGED <<execVars, normVars, fetchVars, qVars>>


(* ------------- sankhya-api.ts: fazerRequisicaoAutenticada -------------- *)
EXEC_MAX_RETRIES == 2

Reqs == {1, 2}

\* what an outbound call can end in: an HTTP status, or an axios error code
\* with no response
HttpStatuses == {200, 400, 401, 403, 500, 503}
ErrorCodes == {"ECONNABORTED", "ENOTFOUND", "ECONNRESET"}
\* msg: erro.response.data.statusMessage, when the error body has one
Responses == {[status |-> st, code |-> "none", msg |-> "none"] : st \in HttpStatuses}
                \cup {[status |-> 0, code |-> cd, msg |-> "none"] : cd \in ErrorCodes}
                \cup {[status |-> 400, code |-> "none", msg |-> "statusMessage"]}

\* axios resolves on 2xx and rejects otherwise
IsSuccess(r) == r.status >= 200 /\ r.status < 300

\* erro.response && (erro.response.status === 401 || erro.response.status === 403)
IsAuthFailure(r) == r.status = 401 \/ r.status = 403

IsTransient_From400(r) == r.code = "ECONNABORTED" \/ r.code = "ENOTFOUND" \/ r.status >= 400

\* erro.code === 'ECONNABORTED' || erro.code === 'ENOTFOUND' || erro.response?.status >= 500
IsTransient(r) == r.code = "ECONNABORTED" \/ r.code = "ENOTFOUND" \/ r.status >= 500

AuthRetryAllowed_Twice(rc) == rc < 2

\* if (retryCount < 1)
AuthRetryAllowed(rc) == rc < 1

TransientRetryAllowed_Thrice(rc) == rc < EXEC_MAX_RETRIES + 1

\* ... && retryCount < MAX_RETRIES
TransientRetryAllowed(rc) == rc < EXEC_MAX_RETRIES

\* the error thrown when no retry is made
FinalError(r) ==
    IF r.code = "ECONNABORTED" THEN "errTimeout"
    ELSE IF r.status >= 500 THEN "errUnavailable"
    ELSE "errRequestFailed"

\* erro.response?.data?.statusMessage || erro.message || "Erro na comunicação com o servidor"
FinalMessage(r) == IF r.msg # "none" THEN r.msg ELSE "erro.message"

NewReq == [pc |-> "idle", retryCount |-> 0, attempts |-> 0, hist |-> <<>>, token |-> 0,
           deletes |-> 0, result |-> "pending", body |-> 0, message |-> "none",
           rejected |-> 0]

\* fazerRequisicaoAutenticada(fullUrl, method, data) is called
ExecCall(r) ==
    /\ req[r].pc = "idle"
    /\ \A q \in Reqs : q < r => req[q].pc # "idle"
    /\ req' = [req EXCEPT ![r] = [NewReq EXCEPT !.pc = "getToken"]]
    /\ UNCHANGED <<pendingRequests, op, caller, globalCachedToken, redisGlobalToken>>
    /\ UNCHANGED tokVars
    /\ UNCHANGED <<normVars, svcVars>>

\* const token = await obterToken(): the stored credential if it is valid,
\* else a freshly minted one that obterToken stores
ExecGetToken(r) ==
    /\ req[r].pc = "getToken"
    /\ IF TokenValid(CacheGetCred(cred, now), now)
         THEN /\ req' = [req EXCEPT ![r].pc = "http", ![r].token = cred.token]
              /\ UNCHANGED <<cred, loginCalls>>
         ELSE /\ req' = [req EXCEPT ![r].pc = "http", ![r].token = loginCalls + 1]
              /\ loginCalls' = loginCalls + 1
              /\ cred' = [token |-> loginCalls + 1, expiresAt |-> now + TOKEN_LIFE_MS,
                          storeExp |-> StoreExp(now, TOKEN_TTL_S)]
    /\ UNCHANGED <<now, ticks, lock, tokenPromise, call, loginFails, inval, invalidated>>
    /\ UNCHANGED <<pendingRequests, op, caller, globalCachedToken, redisGlobalToken>>
    /\ UNCHANGED <<normVars, svcVars>>

\* await obterToken() throws (login failed, lock timeout): the error has no
\* response and no code, so the catch block rethrows its message
ExecTokenFails(r) ==
    /\ req[r].pc = "getToken"
    /\ ~TokenValid(CacheGetCred(cred, now), now)
    /\ req' = [req EXCEPT ![r].pc = "done", ![r].result = "errToken", ![r].token = 0]
    /\ UNCHANGED <<pendingRequests, op, caller, globalCachedToken, redisGlobalToken>>
    /\ UNCHANGED tokVars
    /\ UNCHANGED <<normVars, svcVars>>

\* the catch block after a failed attempt, up to its next await
AfterFailure(q, r) ==
    IF IsAuthFailure(r)
      THEN [q EXCEPT !.pc = "authDel", !.rejected = q.token]
    ELSE IF IsTransient(r) /\ TransientRetryAllowed(q.retryCount)
      THEN [q EXCEPT !.pc = "getToken", !.retryCount = q.retryCount + 1, !.token = 0]
    ELSE [q EXCEPT !.pc = "done", !.result = FinalError(r), !.token = 0,
                   !.message = IF FinalError(r) = "errRequestFailed" THEN FinalMessage(r) ELSE "none"]

\* const response = await axiosInstance(config); return response.data
ExecHttp(r) ==
    /\ req[r].pc = "http"
    /\ \E rsp \in Responses :
         LET q == [req[r] EXCEPT !.attempts = req[r].attempts + 1,
                                 !.hist = Append(req[r].hist, rsp)] IN
         req' = [req EXCEPT ![r] =
                    IF IsSuccess(rsp)
                      THEN [q EXCEPT !.pc = "done", !.result = "ok", !.body = q.attempts, !.token = 0]
                      ELSE AfterFailure(q, rsp)]
    /\ UNCHANGED <<pendingRequests, op, caller, globalCachedToken, redisGlobalToken>>
    /\ UNCHANGED tokVars
    /\ UNCHANGED <<normVars, svcVars>>

\* await getCacheService().then(cache => cache.delete('sankhya:token')); then
\* the single retry, or "Sessão expirada. Tente novamente."
ExecAuthDelete(r) ==
    /\ req[r].pc = "authDel"
    /\ cred' = CacheDeleteCred(cred)
    /\ req' = [req EXCEPT ![r] =
                 IF AuthRetryAllowed(req[r].retryCount)
                   THEN [req[r] EXCEPT !.pc = "getToken", !.retryCount = req[r].retryCount + 1,
                                       !.deletes = req[r].deletes + 1, !.token = 0]
                   ELSE [req[r] EXCEPT !.pc = "done", !.result = "errSessionExpired",
                                       !.deletes = req[r].deletes + 1, !.token = 0]]
    /\ UNCHANGED <<now, ticks, lock, tokenPromise, call, loginCalls, loginFails, inval, invalidated>>
    /\ UNCHANGED <<pendingRequests, op, caller, globalCachedToken, redisGlobalToken>>
    /\ UNCHANGED <<normVars, svcVars>>

\* the invocation of obterToken that the executor's call is followed into
TokenCall == 2

\* const token = await obterToken(), when the store holds a valid credential:
\* obterToken returns its token right after the first read
ExecFastToken(r) ==
    /\ req[r].pc = "getToken"
    /\ TokenValid(CacheGetCred(cred, now), now)
    /\ req' = [req EXCEPT ![r].pc = "http", ![r].token = cred.token]
    /\ UNCHANGED <<pendingRequests, op, caller, globalCachedToken, redisGlobalToken>>
    /\ UNCHANGED tokVars
    /\ UNCHANGED <<normVars, svcVars>>

\* const token = await obterToken(): the call is made, in the process the
\* executor runs in, and the executor waits for it
ExecObterToken(r) ==
    /\ req[r].pc = "getToken"
    /\ call[TokenCall].pc = "idle"
    /\ call' = [call EXCEPT ![TokenCall] = [NewCall EXCEPT !.proc = "p1", !.pc = "fastGet"]]
    /\ req' = [req EXCEPT ![r].pc = "awaitToken"]
    /\ UNCHANGED <<now, ticks, cred, lock, tokenPromise, loginCalls, loginFails, inval, invalidated>>
    /\ UNCHANGED <<pendingRequests, op, caller, globalCachedToken, redisGlobalToken>>
    /\ UNCHANGED <<normVars, svcVars>>

\* obterToken has settled: the request goes out with its token, or the
\* catch block rethrows its error
ExecTokenReturned(r) ==
    LET c == call[TokenCall] IN
    /\ req[r].pc = "awaitToken"
    /\ c.pc = "done"
    /\ req' = [req EXCEPT ![r] =
                 IF c.outcome = "token"
                   THEN [req[r] EXCEPT !.pc = "http", !.token = c.ret]
                   ELSE [req[r] EXCEPT !.pc = "done", !.result = "errToken", !.token = 0]]
    /\ UNCHANGED <<pendingRequests, op, caller, globalCachedToken, redisGlobalToken>>
    /\ UNCHANGED tokVars
    /\ UNCHANGED <<normVars, svcVars>>

(* ---- produtos-service.ts: dedupedRequest, fazerRequisicaoAutenticada --- *)
Callers == {1, 2, 3}

\* a call of dedupedRequest: <<c, 0>> is made by caller c, <<c, d + 1>> is the
\* one that the fetcher invoked by <<c, d>> makes when it retries with
\* retryCount d + 1
Depths == 0..(EXEC_MAX_RETRIES + 1)
CallIds == Callers \X Depths
NoCall == <<0, 0>>

\* `${method}:${fullUrl}:${JSON.stringify(data)}` of the executor, and a key
\* of another user of dedupedRequest (consultarProdutos' `produtos:...`)
ExecKey == "POST:url:{}"
PlainKey == "produtos:url:{}"
Keys == {ExecKey, PlainKey}

NewOp == [state |-> "none", key |-> ExecKey, attempts |-> 0, hist |-> <<>>,
          result |-> "pending", body |-> 0]
NewCaller == [pc |-> "idle", key |-> ExecKey, promise |-> NoCall, joined |-> FALSE,
              result |-> "pending", body |-> 0]

\* the fetcher invocations of a key that have not settled
\* the record of a call; a call not made yet has the initial one
Op(x) == IF x \in DOMAIN op THEN op[x] ELSE NewOp
CallerOf(x) == IF x \in DOMAIN caller THEN caller[x] ELSE NewCaller

\* f with the entry of call x set to v (x is added when it is new)
WithCall(f, x, v) == [y \in (DOMAIN f) \cup {x} |-> IF y = x THEN v ELSE f[y]]

Unsettled(k) == {x \in CallIds : Op(x).key = k
                                  /\ Op(x).state \in {"token", "http", "authDel", "retry", "awaitCall", "running"}}

DedupHit_Never(pending, k) == FALSE

\* if (pendingRequests.has(key)) return pendingRequests.get(key)
DedupHit(pending, k) == pending[k] # NoCall

\* the first synchronous stretch of the fetcher: the executor's async block
\* runs up to await getSankhyaToken(); any other fetcher just runs
FetcherStart(k) == IF k = ExecKey THEN "token" ELSE "running"

\* dedupedRequest(key, fetcher) called as x: join the pending promise, or
\* invoke the fetcher and register fetcher().finally(...) under the key
CallerAfterDedup(x, k) ==
    [NewCaller EXCEPT !.pc = "waiting", !.key = k, !.joined = (Unsettled(k) # {}),
                      !.promise = IF DedupHit(pendingRequests, k) THEN pendingRequests[k] ELSE x]

OpAfterDedup(x, k) ==
    IF DedupHit(pendingRequests, k) THEN Op(x)
    ELSE [NewOp EXCEPT !.state = FetcherStart(k), !.key = k]

PendingAfterDedup(x, k) ==
    IF DedupHit(pendingRequests, k) THEN pendingRequests
    ELSE [pendingRequests EXCEPT ![k] = x]

\* a caller calls fazerRequisicaoAutenticada(url, method, data), or another
\* function that wraps its fetch in dedupedRequest
DedupedCall(c) ==
    LET x == <<c, 0>> IN
    /\ CallerOf(x).pc = "idle"
    /\ \A d \in Callers : d < c => CallerOf(<<d, 0>>).pc # "idle"
    /\ \E k \in Keys :
         /\ caller' = WithCall(caller, x, CallerAfterDedup(x, k))
         /\ op' = WithCall(op, x, OpAfterDedup(x, k))
         /\ pendingRequests' = PendingAfterDedup(x, k)
    /\ UNCHANGED <<req, globalCachedToken, redisGlobalToken>>
    /\ UNCHANGED tokVars
    /\ UNCHANGED <<normVars, svcVars>>

\* the fetcher's promise settles: with the response body, or with an error
SettleOp(o, res, b) == [o EXCEPT !.state = "settled", !.result = res, !.body = b]

\* a fetcher other than the executor settles, with a value or with an error
PlainSettle(x) ==
    /\ Op(x).state = "running"
    /\ \E ok \in BOOLEAN :
         op' = [op EXCEPT ![x] = SettleOp(Op(x), IF ok THEN "ok" ELSE "errFetch", IF ok THEN 1 ELSE 0)]
    /\ UNCHANGED <<req, pendingRequests, caller, globalCachedToken, redisGlobalToken>>
    /\ UNCHANGED tokVars
    /\ UNCHANGED <<normVars, svcVars>>

\* const token = await getSankhyaToken(): the in-memory token if there is
\* one, else a login whose token is kept in memory and in the store
ProdGetToken(x) ==
    /\ Op(x).state = "token"
    /\ IF globalCachedToken # 0
         THEN UNCHANGED <<globalCachedToken, redisGlobalToken, loginCalls>>
         ELSE /\ globalCachedToken' = loginCalls + 1
              /\ redisGlobalToken' = loginCalls + 1
              /\ loginCalls' = loginCalls + 1
    /\ op' = [op EXCEPT ![x].state = "http"]
    /\ UNCHANGED <<req, pendingRequests, caller>>
    /\ UNCHANGED <<now, ticks, cred, lock, tokenPromise, call, loginFails, inval, invalidated>>
    /\ UNCHANGED <<normVars, svcVars>>

\* getSankhyaToken() throws after its login failed: globalCachedToken = null,
\* the stored token is deleted, and the fetcher's catch block rethrows
ProdTokenFails(x) ==
    /\ Op(x).state = "token"
    /\ globalCachedToken = 0
    /\ redisGlobalToken' = 0
    /\ op' = [op EXCEPT ![x] = SettleOp(Op(x), "errToken", 0)]
    /\ UNCHANGED <<req, pendingRequests, caller, globalCachedToken>>
    /\ UNCHANGED tokVars
    /\ UNCHANGED <<normVars, svcVars>>

\* the catch block after a failed attempt, up to its next await;
\* retryCount is the depth of the call
ProdAfterFailure(q, r, rc) ==
    IF IsAuthFailure(r)
      THEN [q EXCEPT !.state = "authDel"]
    ELSE IF IsTransient(r) /\ TransientRetryAllowed(rc)
      THEN [q EXCEPT !.state = "retry"]
    ELSE SettleOp(q, FinalError(r), 0)

\* const resposta = await axios(config); return resposta.data; on 401/403
\* globalCachedToken = null at once
ProdHttp(x) ==
    /\ Op(x).state = "http"
    /\ \E r \in Responses :
         LET q == [op[x] EXCEPT !.attempts = Op(x).attempts + 1, !.hist = Append(Op(x).hist, r)] IN
         /\ op' = [op EXCEPT ![x] = IF IsSuccess(r) THEN SettleOp(q, "ok", x[2] + 1)
                                     ELSE ProdAfterFailure(q, r, x[2])]
         /\ globalCachedToken' = IF IsAuthFailure(r) THEN 0 ELSE globalCachedToken
    /\ UNCHANGED <<req, pendingRequests, caller, redisGlobalToken>>
    /\ UNCHANGED tokVars
    /\ UNCHANGED <<normVars, svcVars>>

\* await redisCacheService.delete("sankhya_global_token"); then the single
\* retry, or "Sessão expirada. Tente novamente."
ProdAuthDelete(x) ==
    /\ Op(x).state = "authDel"
    /\ redisGlobalToken' = 0
    /\ op' = IF AuthRetryAllowed(x[2])
               THEN [op EXCEPT ![x].state = "retry"]
               ELSE [op EXCEPT ![x] = SettleOp(Op(x), "errSessionExpired", 0)]
    /\ UNCHANGED <<req, pendingRequests, caller, globalCachedToken>>
    /\ UNCHANGED tokVars
    /\ UNCHANGED <<normVars, svcVars>>

\* after the delay: return fazerRequisicaoAutenticada(fullUrl, method, data,
\* retryCount + 1), which goes through dedupedRequest with the same key; the
\* fetcher settles as the promise it gets settles
ProdRetry(x) ==
    LET y == <<x[1], x[2] + 1>>
        k == Op(x).key
    IN
    /\ Op(x).state = "retry"
    /\ caller' = WithCall(caller, y, CallerAfterDedup(y, k))
    /\ op' = WithCall([op EXCEPT ![x].state = "awaitCall"], y, OpAfterDedup(y, k))
    /\ pendingRequests' = PendingAfterDedup(y, k)
    /\ UNCHANGED <<req, globalCachedToken, redisGlobalToken>>
    /\ UNCHANGED tokVars
    /\ UNCHANGED <<normVars, svcVars>>

\* the store's entry 'sankhya_global_token' reaches the end of its 18 minutes
RedisTokenExpire ==
    /\ redisGlobalToken # 0
    /\ redisGlobalToken' = 0
    /\ UNCHANGED <<req, pendingRequests, op, caller, globalCachedToken>>
    /\ UNCHANGED tokVars
    /\ UNCHANGED <<normVars, svcVars>>

PendingAfterFinally_Kept(pending, k) == pending

\* pendingRequests.delete(key)
PendingAfterFinally(pending, k) == [pending EXCEPT ![k] = NoCall]

\* .finally(() => { pendingRequests.delete(key) })
DedupFinally(x) ==
    /\ Op(x).state = "settled"
    /\ pendingRequests' = PendingAfterFinally(pendingRequests, op[x].key)
    /\ op' = [op EXCEPT ![x].state = "finalised"]
    /\ UNCHANGED <<req, caller, globalCachedToken, redisGlobalToken>>
    /\ UNCHANGED tokVars
    /\ UNCHANGED <<normVars, svcVars>>

\* the await of the promise that dedupedRequest returned completes; when the
\* call was a fetcher's retry, that fetcher settles with the same outcome
Deliver(x) ==
    LET p == CallerOf(x).promise
        parent == <<x[1], x[2] - 1>>
        got == [caller[x] EXCEPT !.pc = "done", !.result = Op(p).result, !.body = Op(p).body]
    IN
    /\ CallerOf(x).pc = "waiting"
    /\ Op(p).state = "finalised"
    /\ caller' = [caller EXCEPT ![x] = got]
    /\ op' = IF x[2] > 0
               THEN [op EXCEPT ![parent] = SettleOp(Op(parent), Op(p).result, Op(p).body)]
               ELSE op
    /\ UNCHANGED <<req, pendingRequests, globalCachedToken, redisGlobalToken>>
    /\ UNCHANGED tokVars
    /\ UNCHANGED <<normVars, svcVars>>

(* ------ mapearEntidades (produtos-service), mapearParceiros (sankhya-api) ------ *)
MaxFields == 2
MaxIndex == 1

\* field names of a query's fieldset; the values a slot's '$' can carry
Names == {"CODPROD", "CODPARC", "DESCRPROD"}
Values == {"10", "Widget", ""}
Undefined == "<undefined>"
Absent == "<absent>"
Mappers == {"mapearEntidades", "mapearParceiros"}

\* rawEntity[`f${i}`]: a property the object lacks reads as undefined
SlotOf_NextSlot(row, i) == IF i + 1 \in DOMAIN row THEN row[i + 1] ELSE Absent

SlotOf(row, i) == IF i \in DOMAIN row THEN row[i] ELSE Absent

\* JavaScript truthiness of a value of cleanObject
Truthy(v) == v # "" /\ v # Undefined

\* cleanObject[fieldName] = value
Put(obj, k, v) == [x \in (DOMAIN obj) \cup {k} |-> IF x = k THEN v ELSE obj[x]]

\* for (let i = 0; i < fieldNames.length; i++)
\*   if (rawEntity[fieldKey]) cleanObject[fieldName] = rawEntity[fieldKey].$
RECURSIVE CopyFields(_, _, _, _)
CopyFields(obj, names, row, i) ==
    IF i >= Len(names) THEN obj
    ELSE CopyFields(IF SlotOf(row, i) # Absent THEN Put(obj, names[i + 1], SlotOf(row, i)) ELSE obj,
                    names, row, i + 1)

\* the field that gives _id: CODPROD in mapearEntidades, CODPARC in mapearParceiros
IdField(m) == IF m = "mapearEntidades" THEN "CODPROD" ELSE "CODPARC"

\* cleanObject._id = cleanObject.CODPROD ? String(cleanObject.CODPROD) : String(index)
WithId(obj, m, ix) ==
    Put(obj, "_id", IF IdField(m) \in DOMAIN obj /\ Truthy(obj[IdField(m)])
                      THEN obj[IdField(m)] ELSE ToString(ix))

EmptyObject == [x \in {} |-> ""]

MapEntity(m, names, row, ix) == WithId(CopyFields(EmptyObject, names, row, 0), m, ix)

NotMapped == [x \in {"<none>"} |-> ""]

\* one element of a response is mapped
Mapear ==
    /\ cleanObject = NotMapped
    /\ cleanObject' = MapEntity(mapper, fieldNames, rawEntity, index)
    /\ UNCHANGED <<fieldNames, rawEntity, index, mapper>>
    /\ UNCHANGED <<tokVars, execVars, svcVars>>

\* the next element of the response
NextEntity ==
    /\ cleanObject # NotMapped
    /\ index < MaxIndex
    /\ index' = index + 1
    /\ cleanObject' = NotMapped
    /\ UNCHANGED <<fieldNames, rawEntity, mapper>>
    /\ UNCHANGED <<tokVars, execVars, svcVars>>

DistinctSeqs(S, n) ==
    {q \in UNION {[1..l -> S] : l \in 0..n} : \A a, b \in DOMAIN q : q[a] = q[b] => a = b}

InitNorm ==
    /\ fieldNames = <<>>
    /\ rawEntity = [i \in 0..(MaxFields - 1) |-> Absent]
    /\ index = 0
    /\ mapper = "mapearEntidades"
    /\ cleanObject = NotMapped

\* any response element: a list of distinct field names, and slots f0, f1, ...
\* that are absent or carry a '$' (or an object without one)
InitNormAny ==
    /\ fieldNames \in DistinctSeqs(Names, MaxFields)
    /\ rawEntity \in [0..(MaxFields - 1) -> Values \cup {Undefined, Absent}]
    /\ index = 0
    /\ mapper \in Mappers
    /\ cleanObject = NotMapped


(* ---- cache-aside fetchers (sankhya-api.ts, produtos-service.ts) ---- *)
\* the last two are route handlers: the partner search (GET, cache key
\* 'search:parceiros:...') and the receivables list (GET, 'titulos:receber:...')
Fetchers == {"consultarParceiros", "consultarTiposOperacao", "consultarTiposNegociacao",
             "consultarProdutos", "consultarEstoqueProduto",
             "searchParceirosRoute", "titulosReceberRoute"}

\* the TTL, in seconds, of the cacheService.set that follows a successful fetch
SuccessTTL(f) ==
    CASE f = "consultarParceiros" -> 10 * 60
      [] f = "consultarTiposOperacao" -> 60 * 60
      [] f = "consultarTiposNegociacao" -> 60 * 60
      [] f = "consultarProdutos" -> 60 * 60 * 1
      [] f = "consultarEstoqueProduto" -> 30
      [] f = "searchParceirosRoute" -> 10 * 60 * 1000
      [] f = "titulosReceberRoute" -> 5 * 60 * 1000

\* the TTL of the empty result that the catch block stores; 0: it stores none
SentinelTTL(f) ==
    CASE f = "consultarProdutos" -> 60
      [] f = "consultarEstoqueProduto" -> 15
      [] OTHER -> 0

\* await logApiRequest(...) after the response, inside the try block
LogsSuccess(f) == f = "consultarEstoqueProduto"

\* await logApiRequest(...) in the catch block, before the sentinel is stored
LogsFailure(f) == f \in {"consultarProdutos", "consultarEstoqueProduto"}

NoEntry == [kind |-> "none", ttl |-> 0]

\* the catch block of fetcher f, entered with error e, up to its next await
FetchCatch(f, e) ==
    /\ fresult' = e
    /\ fpc' = IF LogsFailure(f) THEN "logErr"
              ELSE IF SentinelTTL(f) > 0 THEN "sentinelSet" ELSE "done"

\* a fetcher is called
FetchCall(f) ==
    /\ fpc \in {"idle", "done"}
    /\ fetcher' = f /\ fpc' = "cacheGet" /\ fdown' = "none" /\ fresult' = "pending"
    /\ UNCHANGED <<cacheEntry, invalEnd>>
    /\ UNCHANGED <<tokVars, execVars, normVars, qVars>>

CacheHit_Never(e) == FALSE

\* if (cached !== null)
CacheHit(e) == e.kind # "none"

\* const cached = await cacheService.get(cacheKey); if (cached !== null) return cached
FetchCacheGet ==
    /\ fpc = "cacheGet"
    /\ IF CacheHit(cacheEntry[fetcher])
         THEN fpc' = "done" /\ fresult' = cacheEntry[fetcher].kind
         ELSE fpc' = "request" /\ UNCHANGED fresult
    /\ UNCHANGED <<fetcher, fdown, cacheEntry, invalEnd>>
    /\ UNCHANGED <<tokVars, execVars, normVars, qVars>>

\* the get rejects: it is awaited outside every try block, the fetcher rejects
FetchCacheGetFails ==
    /\ fpc = "cacheGet"
    /\ fpc' = "done" /\ fresult' = "errStore"
    /\ UNCHANGED <<fetcher, fdown, cacheEntry, invalEnd>>
    /\ UNCHANGED <<tokVars, execVars, normVars, qVars>>

\* await fazerRequisicaoAutenticada(...) settles: with a response, or by
\* throwing into the fetcher's catch block
FetchResponse ==
    /\ fpc = "request"
    /\ \E ok \in BOOLEAN :
         IF ok THEN /\ fdown' = "ok"
                    /\ fpc' = IF LogsSuccess(fetcher) THEN "logOk" ELSE "cacheSet"
                    /\ UNCHANGED fresult
               ELSE /\ fdown' = "failed"
                    /\ FetchCatch(fetcher, "errDownstream")
    /\ UNCHANGED <<fetcher, cacheEntry, invalEnd>>
    /\ UNCHANGED <<tokVars, execVars, normVars, qVars>>

\* await logApiRequest({ ..., response, error: null }) returns
FetchLogOk ==
    /\ fpc = "logOk"
    /\ fpc' = "cacheSet"
    /\ UNCHANGED <<fetcher, fdown, fresult, cacheEntry, invalEnd>>
    /\ UNCHANGED <<tokVars, execVars, normVars, qVars>>

\* it rejects: control goes to the catch block with the logger's error
FetchLogOkFails ==
    /\ fpc = "logOk"
    /\ FetchCatch(fetcher, "errLog")
    /\ UNCHANGED <<fetcher, fdown, cacheEntry, invalEnd>>
    /\ UNCHANGED <<tokVars, execVars, normVars, qVars>>

\* await cacheService.set(cacheKey, resultado, ttl); return resultado
FetchCacheSet ==
    /\ fpc = "cacheSet"
    /\ cacheEntry' = [cacheEntry EXCEPT ![fetcher] = [kind |-> "data", ttl |-> SuccessTTL(fetcher)]]
    /\ fpc' = "done" /\ fresult' = "data"
    /\ UNCHANGED <<fetcher, fdown, invalEnd>>
    /\ UNCHANGED <<tokVars, execVars, normVars, qVars>>

\* catch: await logApiRequest({ ..., response: null, error: erro }) returns
FetchLogErr ==
    /\ fpc = "logErr"
    /\ fpc' = IF SentinelTTL(fetcher) > 0 THEN "sentinelSet" ELSE "done"
    /\ UNCHANGED <<fetcher, fdown, fresult, cacheEntry, invalEnd>>
    /\ UNCHANGED <<tokVars, execVars, normVars, qVars>>

\* it rejects inside the catch block: the fetcher rejects with the logger's error
FetchLogErrFails ==
    /\ fpc = "logErr"
    /\ fpc' = "done" /\ fresult' = "errLog"
    /\ UNCHANGED <<fetcher, fdown, cacheEntry, invalEnd>>
    /\ UNCHANGED <<tokVars, execVars, normVars, qVars>>

\* catch: await cacheService.set(cacheKey, <empty result>, ttl); throw erro
FetchSentinelSet ==
    /\ fpc = "sentinelSet"
    /\ cacheEntry' = [cacheEntry EXCEPT ![fetcher] = [kind |-> "sentinel", ttl |-> SentinelTTL(fetcher)]]
    /\ fpc' = "done"
    /\ UNCHANGED <<fetcher, fdown, fresult, invalEnd>>
    /\ UNCHANGED <<tokVars, execVars, normVars, qVars>>

\* the entry of a fetcher's cache key outlives its TTL
FetchExpire(f) ==
    /\ cacheEntry[f].kind # "none"
    /\ cacheEntry' = [cacheEntry EXCEPT ![f] = NoEntry]
    /\ UNCHANGED <<fetcher, fpc, fdown, fresult, invalEnd>>
    /\ UNCHANGED <<tokVars, execVars, normVars, qVars>>

(* ---- two overlapping calls of one produtos-service fetcher, same key ---- *)
OverlapCalls == {1, 2}

NewOCall == [pc |-> "idle", cached |-> "none", promise |-> 0, overlap |-> FALSE,
             result |-> "pending"]

\* the call has started and has not returned or thrown
\* the record of call c; a call not made yet has the initial one
OCall(c) == IF c \in DOMAIN ocall THEN ocall[c] ELSE NewOCall

WithOCall(c, o) == [d \in DOMAIN ocall \cup {c} |-> IF d = c THEN o ELSE ocall[d]]

InFlight(c) == OCall(c).pc \notin {"idle", "done"}

\* consultarProdutos(...) or consultarEstoqueProduto(...) is called; the
\* cache read is issued
OverlapCall(c) ==
    /\ OCall(c).pc = "idle"
    /\ \A d \in OverlapCalls : d < c => OCall(d).pc # "idle"
    /\ IF \E d \in OverlapCalls : OCall(d).pc # "idle"
         THEN UNCHANGED ofn
         ELSE ofn' \in {"consultarProdutos", "consultarEstoqueProduto"}
    /\ ocall' = WithOCall(c, [OCall(c) EXCEPT !.pc = "cacheGet",
                              !.overlap = (oentry = "none"
                                               /\ \E d \in OverlapCalls : d # c /\ InFlight(d))])
    /\ UNCHANGED <<oentry, ohandle, oqueries>>
    /\ UNCHANGED <<tokVars, execVars, normVars, invalEnd, fetchVars, parVars>>

\* the store answers redisCacheService.get(cacheKey)
OverlapCacheGet(c) ==
    /\ OCall(c).pc = "cacheGet"
    /\ ocall' = WithOCall(c, [OCall(c) EXCEPT !.pc = "gotCache", !.cached = oentry])
    /\ UNCHANGED <<ofn, oentry, ohandle, oqueries>>
    /\ UNCHANGED <<tokVars, execVars, normVars, invalEnd, fetchVars, parVars>>

\* if (cached !== null) return cached; otherwise consultarProdutos goes
\* through dedupedRequest(requestKey, ...) and consultarEstoqueProduto sends
\* its query
OverlapAfterGet(c) ==
    LET o == OCall(c) IN
    /\ o.pc = "gotCache"
    /\ IF o.cached # "none"
         THEN /\ ocall' = WithOCall(c, [OCall(c) EXCEPT !.pc = "done", !.result = o.cached])
              /\ UNCHANGED <<ohandle, oqueries>>
         ELSE IF ofn = "consultarProdutos" /\ ohandle # 0
           THEN /\ ocall' = WithOCall(c, [OCall(c) EXCEPT !.pc = "joined", !.promise = ohandle])
                /\ UNCHANGED <<ohandle, oqueries>>
           ELSE /\ ocall' = WithOCall(c, [OCall(c) EXCEPT !.pc = "request"])
                /\ ohandle' = IF ofn = "consultarProdutos" THEN c ELSE ohandle
                /\ oqueries' = oqueries + 1
    /\ UNCHANGED <<ofn, oentry>>
    /\ UNCHANGED <<tokVars, execVars, normVars, invalEnd, fetchVars, parVars>>

\* await fazerRequisicaoAutenticada(...) settles: the result is about to be
\* stored, or the catch block about to store the empty result
OverlapResponse(c) ==
    /\ OCall(c).pc = "request"
    /\ \E ok \in BOOLEAN :
         ocall' = WithOCall(c, [OCall(c) EXCEPT !.pc = IF ok THEN "cacheSet" ELSE "sentinelSet"])
    /\ UNCHANGED <<ofn, oentry, ohandle, oqueries>>
    /\ UNCHANGED <<tokVars, execVars, normVars, invalEnd, fetchVars, parVars>>

\* where a call goes when its fetch has returned or thrown: consultarProdutos'
\* fetcher has its .finally to run, consultarEstoqueProduto is done
AfterFetch(f) == IF f = "consultarProdutos" THEN "finally" ELSE "done"

\* await redisCacheService.set(cacheKey, resultado, ttl); return resultado
OverlapCacheSet(c) ==
    /\ OCall(c).pc = "cacheSet"
    /\ oentry' = "data"
    /\ ocall' = WithOCall(c, [OCall(c) EXCEPT !.pc = AfterFetch(ofn), !.result = "data"])
    /\ UNCHANGED <<ofn, ohandle, oqueries>>
    /\ UNCHANGED <<tokVars, execVars, normVars, invalEnd, fetchVars, parVars>>

\* catch: await redisCacheService.set(cacheKey, <empty result>, ttl); throw erro
OverlapSentinelSet(c) ==
    /\ OCall(c).pc = "sentinelSet"
    /\ oentry' = "sentinel"
    /\ ocall' = WithOCall(c, [OCall(c) EXCEPT !.pc = AfterFetch(ofn), !.result = "errDownstream"])
    /\ UNCHANGED <<ofn, ohandle, oqueries>>
    /\ UNCHANGED <<tokVars, execVars, normVars, invalEnd, fetchVars, parVars>>

\* .finally(() => { pendingRequests.delete(key) })
OverlapFinally(c) ==
    /\ OCall(c).pc = "finally"
    /\ ohandle' = 0
    /\ ocall' = WithOCall(c, [OCall(c) EXCEPT !.pc = "done"])
    /\ UNCHANGED <<ofn, oentry, oqueries>>
    /\ UNCHANGED <<tokVars, execVars, normVars, invalEnd, fetchVars, parVars>>

\* the promise that dedupedRequest returned to a joining call settles
OverlapDeliver(c) ==
    LET o == OCall(c) IN
    /\ o.pc = "joined"
    /\ OCall(o.promise).pc = "done"
    /\ ocall' = WithOCall(c, [OCall(c) EXCEPT !.pc = "done", !.result = OCall(o.promise).result])
    /\ UNCHANGED <<ofn, oentry, ohandle, oqueries>>
    /\ UNCHANGED <<tokVars, execVars, normVars, invalEnd, fetchVars, parVars>>

\* ---- consultarParceiros: its cache key and its seller / team filter ----

MaxLen == 1

ParCalls == {1, 2}

\* the characters searchName and searchCode are made of, the strings of them
SearchChars == {":", "1"}
SearchStrings == UNION {[1..n -> SearchChars] : n \in 0..MaxLen}

\* codVendedor when it is given; the team lists the routes pass
Sellers == {1, 2}
Equipes == {<<>>, <<1>>, <<1, 2>>}

\* the optional arguments codVendedor and codVendedoresEquipe
Restrictions ==
    [hasVend : {FALSE}, codVendedor : {0}, hasEquipe : {FALSE}, equipe : {<<>>}]
    \cup [hasVend : {TRUE}, codVendedor : Sellers, hasEquipe : {FALSE}, equipe : {<<>>}]
    \cup [hasVend : {FALSE}, codVendedor : {0}, hasEquipe : {TRUE}, equipe : Equipes]
    \cup [hasVend : {TRUE}, codVendedor : Sellers, hasEquipe : {TRUE}, equipe : Equipes]

Digits == <<"0", "1", "2", "3", "4", "5", "6", "7", "8", "9">>

\* a template literal's rendering of a natural number
RECURSIVE NumberChars(_)
NumberChars(n) ==
    IF n < 10 THEN <<Digits[n + 1]>>
    ELSE NumberChars(n \div 10) \o <<Digits[(n % 10) + 1]>>

UndefinedChars == <<"u", "n", "d", "e", "f", "i", "n", "e", "d">>

\* `${codVendedor}`
VendChars(r) == IF r.hasVend THEN NumberChars(r.codVendedor) ELSE UndefinedChars

\* list.join(',')
RECURSIVE JoinChars(_)
JoinChars(list) ==
    IF Len(list) = 0 THEN <<>>
    ELSE IF Len(list) = 1 THEN NumberChars(list[1])
    ELSE NumberChars(list[1]) \o <<",">> \o JoinChars(Tail(list))

\* `${codVendedoresEquipe?.join(',')}`
EquipeChars(r) == IF r.hasEquipe THEN JoinChars(r.equipe) ELSE UndefinedChars

\* the key with the team list left out
CacheKeyParceiros_NoEquipe(page, pageSize, searchName, searchCode, r) ==
    <<"p", "a", "r", "c", "e", "i", "r", "o", "s", ":", "l", "i", "s", "t", ":">> \o NumberChars(page) \o <<":">> \o NumberChars(pageSize)
        \o <<":">> \o searchName \o <<":">> \o searchCode \o <<":">> \o VendChars(r) \o <<":">>

\* `parceiros:list:${page}:${pageSize}:${searchName}:${searchCode}:${codVendedor}:${codVendedoresEquipe?.join(',')}`
CacheKeyParceiros(page, pageSize, searchName, searchCode, r) ==
    <<"p", "a", "r", "c", "e", "i", "r", "o", "s", ":", "l", "i", "s", "t", ":">> \o NumberChars(page) \o <<":">> \o NumberChars(pageSize)
        \o <<":">> \o searchName \o <<":">> \o searchCode \o <<":">> \o VendChars(r)
        \o <<":">> \o EquipeChars(r)

\* the CODVEND filter of the criteria: the sellers whose clients the query
\* is restricted to, or no restriction
SellerFilter(r) ==
    IF r.hasEquipe /\ Len(r.equipe) > 0
        THEN [kind |-> "equipe", sellers |-> {r.equipe[k] : k \in 1..Len(r.equipe)}]
    ELSE IF r.hasVend /\ r.codVendedor # 0
        THEN [kind |-> "vendedor", sellers |-> {r.codVendedor}]
    ELSE [kind |-> "todos", sellers |-> {}]

NoRestriction == [hasVend |-> FALSE, codVendedor |-> 0, hasEquipe |-> FALSE, equipe |-> <<>>]
NoFilter == [kind |-> "none", sellers |-> {}]

NewPCall ==
    [pc |-> "idle", args |-> NoRestriction, key |-> <<>>, filter |-> NoFilter,
     hit |-> FALSE, servedFor |-> NoRestriction, result |-> "pending"]

\* the record of call c; a call not made yet has the initial one
PCall(c) == IF c \in DOMAIN pcall THEN pcall[c] ELSE NewPCall

WithPCall(c, q) == [d \in DOMAIN pcall \cup {c} |-> IF d = c THEN q ELSE pcall[d]]

\* consultarParceiros(1, 50, searchName, searchCode, codVendedor, codVendedoresEquipe)
\* up to its query: the key, the cache read, a hit's return, the filters
ParceirosCall(c) ==
    /\ PCall(c).pc = "idle"
    /\ \E searchName \in SearchStrings, searchCode \in SearchStrings, r \in Restrictions :
        LET key == CacheKeyParceiros(1, 50, searchName, searchCode, r)
            found == {e \in pcache : e.key = key}
        IN  IF found # {}
            THEN \E e \in found :
                    pcall' = WithPCall(c, [PCall(c) EXCEPT !.pc = "done", !.args = r, !.key = key, !.hit = TRUE,
                                  !.servedFor = e.storedFor, !.result = "data"])
            ELSE pcall' = WithPCall(c, [PCall(c) EXCEPT !.pc = "request", !.args = r, !.key = key,
                                  !.filter = SellerFilter(r)])
    /\ UNCHANGED pcache
    /\ UNCHANGED <<tokVars, execVars, normVars, invalEnd, fetchVars, ofn, ocall, oentry, ohandle, oqueries>>

\* the query's answer: a list, which is stored under the key; an answer
\* without entities, which is returned as an empty page and not stored; an error
ParceirosResponse(c) ==
    /\ PCall(c).pc = "request"
    /\ \/ /\ pcall' = WithPCall(c, [PCall(c) EXCEPT !.pc = "done", !.servedFor = PCall(c).args, !.result = "data"])
          /\ pcache' = {e \in pcache : e.key # PCall(c).key}
                            \cup {[key |-> PCall(c).key, storedFor |-> PCall(c).args]}
       \/ /\ pcall' = WithPCall(c, [PCall(c) EXCEPT !.pc = "done", !.servedFor = PCall(c).args, !.result = "empty"])
          /\ UNCHANGED pcache
       \/ /\ pcall' = WithPCall(c, [PCall(c) EXCEPT !.pc = "done", !.result = "errDownstream"])
          /\ UNCHANGED pcache
    /\ UNCHANGED <<tokVars, execVars, normVars, invalEnd, fetchVars, ofn, ocall, oentry, ohandle, oqueries>>

InitFetch ==
    /\ fetcher = "consultarParceiros" /\ fpc = "idle" /\ fdown = "none" /\ fresult = "pending"
    /\ cacheEntry = [f \in Fetchers |-> NoEntry]
    /\ ofn = "consultarProdutos" /\ ocall = [c \in {} |-> NewOCall]
    /\ oentry = "none" /\ ohandle = 0 /\ oqueries = 0
    /\ pcall = [c \in {} |-> NewPCall] /\ pcache = {}

InitTok ==
    /\ now = 0 /\ ticks = 0
    /\ invalEnd = "none"
    /\ inval = "idle" /\ invalidated = FALSE
    /\ cred = NoCred /\ lock = NoLock
    /\ tokenPromise = [p \in Procs |-> NoPromise]
    /\ call = [i \in Inv |-> NewCall]
    /\ loginCalls = 0 /\ loginFails = 0

InitExec ==
    /\ req = [r \in Reqs |-> NewReq]
    /\ pendingRequests = [k \in Keys |-> NoCall]
    /\ op = [x \in {} |-> NewOp]
    /\ caller = [x \in {} |-> NewCaller]
    /\ globalCachedToken = 0 /\ redisGlobalToken = 0

Init == InitTok /\ InitExec /\ InitNorm /\ InitFetch

Next ==
    \/ \E i \in Inv :
         \/ Call(i) \/ ForceDelete(i) \/ FastGet(i) \/ FastCheck(i) \/ AwaitPromise(i)
         \/ LockGet(i) \/ LockSet(i) \/ WaitGet(i) \/ WaitCheck(i) \/ WaitDelete(i)
         \/ TimeoutGet(i) \/ TimeoutCheck(i) \/ DoubleGet(i) \/ DoubleCheck(i) \/ DoubleDelete(i)
         \/ LoginOk(i) \/ LoginFail(i) \/ CredSet(i) \/ LoginRelease(i) \/ CatchRelease(i)
         \/ RetryLogin(i) \/ ErrorDelete(i) \/ FinallyDelete(i)
    \/ Tick
    \/ \E p \in Procs : Crash(p)
    \/ InvalidarTokenCred \/ InvalidarTokenLock

Spec == Init /\ [][Next]_vars

\* the token manager over a store whose calls may reject
NextStoreFail ==
    \/ Next
    \/ \E i \in Inv : FastGetFails(i)
    \/ InvalidarTokenCredFails \/ InvalidarTokenLockFails

SpecStoreFail == Init /\ [][NextStoreFail]_vars

\* one obterToken call followed through every login retry
NextSolo ==
    \/ Call(1) \/ ForceDelete(1) \/ FastGet(1) \/ FastCheck(1) \/ LockGet(1) \/ LockSet(1)
    \/ DoubleGet(1) \/ DoubleCheck(1) \/ LoginOk(1) \/ LoginFailSolo(1) \/ CredSet(1)
    \/ LoginRelease(1) \/ CatchRelease(1) \/ BackoffElapses(1) \/ RetryLogin(1)
    \/ ErrorDelete(1) \/ FinallyDelete(1)

SpecSolo == Init /\ [][NextSolo]_vars

\* a continuation of invocation i: the store call, login call or promise
\* it is suspended on has settled
Resume(i) ==
    \/ ForceDelete(i) \/ FastGet(i) \/ FastGetFails(i) \/ FastCheck(i) \/ AwaitPromise(i)
    \/ LockGet(i) \/ LockSet(i) \/ WaitGet(i) \/ WaitCheck(i) \/ WaitDelete(i)
    \/ TimeoutGet(i) \/ TimeoutCheck(i) \/ DoubleGet(i) \/ DoubleCheck(i) \/ DoubleDelete(i)
    \/ LoginOk(i) \/ LoginFail(i) \/ CredSet(i) \/ LoginRelease(i) \/ CatchRelease(i)
    \/ RetryLogin(i) \/ ErrorDelete(i) \/ FinallyDelete(i)

\* a timer fires once every continuation that can run has run
TimerDue == TimerFires /\ \A i \in Inv : ~ENABLED Resume(i)

\* obterToken in processes that stay up, with the event loop's scheduling:
\* a continuation whose awaited call has settled runs, a timer set fires.
\* Store and login calls take no time of their own; up to MaxTicks delays
\* of TickSteps come on top at any moment.
NextLive ==
    \/ \E i \in Inv : Call(i) \/ Resume(i)
    \/ Tick
    \/ TimerDue

SpecLive ==
    Init /\ [][NextLive]_vars /\ WF_vars(TimerDue) /\ \A i \in Inv : WF_vars(Resume(i))

\* sankhya-api's executor, two requests at a time
NextExec ==
    \E r \in Reqs :
        \/ ExecCall(r) \/ ExecGetToken(r) \/ ExecTokenFails(r) \/ ExecHttp(r) \/ ExecAuthDelete(r)

SpecExec == Init /\ [][NextExec]_vars

\* one call of sankhya-api's executor together with obterToken: another
\* caller's renewal (invocation 1) and the executor's own call of obterToken
NextExecTok ==
    \/ ExecCall(1) \/ ExecFastToken(1) \/ ExecObterToken(1) \/ ExecTokenReturned(1)
    \/ ExecHttp(1) \/ ExecAuthDelete(1)
    \/ Call(1)
    \/ \E i \in Inv :
         \/ ForceDelete(i) \/ FastGet(i) \/ FastCheck(i) \/ AwaitPromise(i)
         \/ LockGet(i) \/ LockSet(i) \/ WaitGet(i) \/ WaitCheck(i) \/ WaitDelete(i)
         \/ TimeoutGet(i) \/ TimeoutCheck(i) \/ DoubleGet(i) \/ DoubleCheck(i) \/ DoubleDelete(i)
         \/ LoginOk(i) \/ LoginFail(i) \/ CredSet(i) \/ LoginRelease(i) \/ CatchRelease(i)
         \/ RetryLogin(i) \/ ErrorDelete(i) \/ FinallyDelete(i)
    \/ Tick

SpecExecTok == Init /\ [][NextExecTok]_vars

\* produtos-service's deduplicator and executor
NextDedup ==
    \/ \E c \in Callers : DedupedCall(c)
    \/ \E x \in CallIds :
         \/ PlainSettle(x) \/ ProdGetToken(x) \/ ProdTokenFails(x) \/ ProdHttp(x)
         \/ ProdAuthDelete(x) \/ ProdRetry(x) \/ DedupFinally(x) \/ Deliver(x)
    \/ RedisTokenExpire

SpecDedup == Init /\ [][NextDedup]_vars

NextNorm == Mapear \/ NextEntity

InitAnyEntity == InitTok /\ InitExec /\ InitNormAny /\ InitFetch

SpecNorm == InitAnyEntity /\ [][NextNorm]_vars

\* the cache-aside fetchers, with a store and a logger that answer
NextFetch ==
    \/ \E f \in Fetchers : FetchCall(f) \/ FetchExpire(f)
    \/ FetchCacheGet \/ FetchResponse \/ FetchLogOk \/ FetchCacheSet
    \/ FetchLogErr \/ FetchSentinelSet

SpecFetch == Init /\ [][NextFetch]_vars

\* two calls of consultarProdutos, or of consultarEstoqueProduto, with the
\* same parameters in one process
NextOverlap ==
    \E c \in OverlapCalls :
        \/ OverlapCall(c) \/ OverlapCacheGet(c) \/ OverlapAfterGet(c) \/ OverlapResponse(c)
        \/ OverlapCacheSet(c) \/ OverlapSentinelSet(c) \/ OverlapFinally(c) \/ OverlapDeliver(c)

SpecOverlap == Init /\ [][NextOverlap]_vars

\* two consultarParceiros calls against one store
NextParceiros ==
    \E c \in ParCalls : ParceirosCall(c) \/ ParceirosResponse(c)

SpecParceiros == Init /\ [][NextParceiros]_vars

\* the same with a store and a logger whose calls may reject
NextFetchFail ==
    \/ NextFetch
    \/ FetchCacheGetFails \/ FetchLogOkFails \/ FetchLogErrFails

SpecFetchFail == Init /\ [][NextFetchFail]_vars

(* ============================== claims ================================= *)
\* no forced refresh, no invalidation, no login failure, no crash, no time
\* passed: the callers only race each other for the first credential
Undisturbed ==
    /\ ticks = 0 /\ loginFails = 0 /\ ~invalidated
    /\ \A i \in Inv : ~call[i].force /\ call[i].pc # "crashed"

\* C1: callers that invoke obterToken concurrently while the store holds no
\* valid credential cause exactly one login call, and all of them receive the
\* same token.
C1_SingleFlightRenewal ==
    Undisturbed =>
        /\ loginCalls <= 1
        /\ \A i, j \in Inv : (call[i].outcome = "token" /\ call[j].outcome = "token")
                                => call[i].ret = call[j].ret

\* C2: at most one obterToken invocation at a time is between its successful
\* lock acquisition and its release of the lock.
C2_LockMutualExclusion ==
    Cardinality({i \in Inv : call[i].lockHeld}) <= 1

\* C3: a token that obterToken returns from the cache store (fast path, wait
\* loop, after a lock timeout, double-check) has expiresAt strictly later than
\* the time of the check that let it through.
C3_CacheValidityCheck ==
    \A i \in Inv : ~call[i].staleReturn

\* an invocation holds a credential that it read from the store and that has
\* expired by now, and is about to run the validity check on it
C3_Witness ==
    \E i \in Inv :
        /\ call[i].pc \in {"fastChk", "waitChk", "toChk", "dblChk"}
        /\ call[i].tokenData.token # 0
        /\ call[i].tokenData.expiresAt <= now

\* C8: an invocation waiting in the lock loop on a lock whose holder crashed
\* acquires the lock (within lock TTL + one poll interval of the crash); it
\* does not end with the lock-timeout error.
C8_LockLiveness ==
    \A i \in Inv : ~(call[i].sawCrashedLock /\ call[i].outcome = "errLockTimeout")

\* C9: an obterToken invocation that acquired the lock has, when it settles,
\* issued a delete of the lock key, and the lock record it wrote is no longer
\* in the store.
C9_LockReleasedOnExit ==
    \A i \in Inv :
        (call[i].pc = "done" /\ call[i].acquired)
            => (call[i].deleteIssued /\ ~call[i].lockHeld /\ lock.owner # i)

\* a lock holder has settled by throwing after a failed login, the exit whose
\* release is left to the catch and finally blocks
C9_Witness ==
    \E i \in Inv :
        /\ call[i].pc = "done" /\ call[i].acquired
        /\ call[i].outcome \in {"errUnavailable", "errAuth"}


\* the outbound attempts of caller c's call and of the retries it led to
RECURSIVE AttemptsFrom(_, _)
AttemptsFrom(c, d) ==
    IF d \notin Depths THEN 0 ELSE Op(<<c, d>>).attempts + AttemptsFrom(c, d + 1)

RECURSIVE HistFrom(_, _)
HistFrom(c, d) ==
    IF d \notin Depths THEN <<>> ELSE Op(<<c, d>>).hist \o HistFrom(c, d + 1)

\* the fetcher of call x awaits the retry's dedupedRequest promise, which is
\* the promise of x's own fetcher: neither can settle
AwaitsItself(x) ==
    /\ Op(x).state = "awaitCall"
    /\ CallerOf(<<x[1], x[2] + 1>>).pc = "waiting"
    /\ CallerOf(<<x[1], x[2] + 1>>).promise = x

\* caller c's executor call has settled, or can never take another step
ProdAtRest(c) ==
    \/ Op(<<c, 0>>).state \in {"settled", "finalised"}
    \/ AwaitsItself(<<c, 0>>)

All500(h) == Len(h) > 0 /\ \A n \in 1..Len(h) : h[n].status = 500

\* C4: callers of dedupedRequest (and of produtos-service's executor) that
\* overlap with an unsettled fetcher of the same key do not invoke the fetcher
\* again: there is one unsettled fetcher per key at most, a caller that
\* arrived during it shares its promise, and all callers sharing a promise
\* receive the identical value or the identical error.
C4_Deduplication ==
    /\ \A k \in Keys : Cardinality(Unsettled(k)) <= 1
    /\ \A x \in CallIds : CallerOf(x).joined => (Op(x).state = "none" /\ CallerOf(x).promise # x)
    /\ \A x, y \in CallIds :
         (CallerOf(x).pc = "done" /\ CallerOf(y).pc = "done" /\ CallerOf(x).promise = CallerOf(y).promise)
            => (CallerOf(x).result = CallerOf(y).result /\ CallerOf(x).body = CallerOf(y).body)

\* two callers of the executor shared one fetcher and both received its error
C4_Witness ==
    \E c, d \in Callers :
        /\ c # d
        /\ CallerOf(<<c, 0>>).pc = "done" /\ CallerOf(<<d, 0>>).pc = "done"
        /\ CallerOf(<<d, 0>>).joined /\ CallerOf(<<d, 0>>).key = ExecKey
        /\ CallerOf(<<d, 0>>).promise = <<c, 0>>
        /\ CallerOf(<<c, 0>>).result = "errRequestFailed"
        /\ Op(<<c, 0>>).attempts = 1 /\ Op(<<d, 0>>).attempts = 0

\* sankhya-api's executor: every attempt answered 500 (a call that ends
\* because obterToken threw made no attempt that could be answered)
ExecRetryExhaustion ==
    \A r \in Reqs :
        (All500(req[r].hist) /\ req[r].pc = "done" /\ req[r].result # "errToken")
            => (req[r].attempts = EXEC_MAX_RETRIES + 1 /\ req[r].result = "errUnavailable")

\* produtos-service's executor: every attempt answered 500
ProdRetryExhaustion ==
    \A c \in Callers :
        (Op(<<c, 0>>).key = ExecKey /\ All500(HistFrom(c, 0)) /\ ProdAtRest(c)
           /\ Op(<<c, 0>>).result # "errToken")
            => /\ AttemptsFrom(c, 0) = EXEC_MAX_RETRIES + 1
               /\ Op(<<c, 0>>).result = "errUnavailable"

\* C5: when the downstream answers every attempt with HTTP 500, a call of the
\* authenticated request executor (sankhya-api's and produtos-service's) ends
\* after exactly MAX_RETRIES + 1 = 3 outbound attempts with the
\* service-unavailable error.
C5_RetryExhaustion == ExecRetryExhaustion /\ ProdRetryExhaustion

\* sankhya-api's executor: first attempt 401/403, second attempt 200
ExecSessionRetry ==
    \A r \in Reqs :
        (Len(req[r].hist) >= 1 /\ IsAuthFailure(req[r].hist[1]) /\ req[r].pc = "done"
           /\ req[r].result # "errToken"
           /\ (Len(req[r].hist) >= 2 => IsSuccess(req[r].hist[2])))
            => (req[r].attempts = 2 /\ req[r].deletes = 1
                /\ req[r].result = "ok" /\ req[r].body = 2)

\* produtos-service's executor: first attempt 401/403, then a retry that is
\* answered 200
ProdSessionRetry ==
    \A c \in Callers :
        (Op(<<c, 0>>).key = ExecKey /\ Len(HistFrom(c, 0)) >= 1
           /\ IsAuthFailure(HistFrom(c, 0)[1]) /\ ProdAtRest(c)
           /\ Op(<<c, 0>>).result # "errToken"
           /\ (Len(HistFrom(c, 0)) >= 2 => IsSuccess(HistFrom(c, 0)[2])))
            => (AttemptsFrom(c, 0) = 2 /\ Op(<<c, 0>>).result = "ok" /\ Op(<<c, 0>>).body = 2)

\* C6: when the first attempt is answered 401 or 403 and the second 200, the
\* executor (sankhya-api's and produtos-service's) invalidates the
\* credential, retries once and returns the second attempt's body without an
\* error.
C6_SessionExpiryRetrySucceeds == ExecSessionRetry /\ ProdSessionRetry

\* C7: when sankhya-api's executor gets 401 or 403 on the first attempt and on
\* the retry, it makes no third attempt and fails with the session-expired
\* error.
C7_SessionExpiryBounded ==
    \A r \in Reqs :
        (Len(req[r].hist) >= 2 /\ IsAuthFailure(req[r].hist[1]) /\ IsAuthFailure(req[r].hist[2]))
            => /\ req[r].attempts = 2
               /\ req[r].pc \in {"authDel", "done"}
               /\ req[r].pc = "done" => req[r].result = "errSessionExpired"

\* a call has failed with the session-expired error after 401 then 403
C7_Witness ==
    \E r \in Reqs :
        /\ req[r].pc = "done" /\ req[r].result = "errSessionExpired"
        /\ Len(req[r].hist) = 2
        /\ req[r].hist[1].status = 401 /\ req[r].hist[2].status = 403


\* the names whose positional slot is present in the row
PresentNames == {fieldNames[i + 1] : i \in {j \in 0..(Len(fieldNames) - 1) : rawEntity[j] # Absent}}

\* C10 as stated: the normalized record's keys are exactly the field names
\* whose slot f<i> is present, and each maps to that slot's '$' value.
C10_NormalizationAsStated ==
    cleanObject # NotMapped =>
        /\ DOMAIN cleanObject = PresentNames
        /\ \A i \in 0..(Len(fieldNames) - 1) :
              rawEntity[i] # Absent => cleanObject[fieldNames[i + 1]] = rawEntity[i]

\* C10 (amended): the normalized record's keys are exactly the field names
\* whose slot f<i> is present plus the key _id; each name maps to its slot's
\* '$' value; _id is the CODPROD (mapearParceiros: CODPARC) value when that is
\* truthy, else the row's index as a string.
C10_Normalization ==
    cleanObject # NotMapped =>
        /\ DOMAIN cleanObject = PresentNames \cup {"_id"}
        /\ \A i \in 0..(Len(fieldNames) - 1) :
              rawEntity[i] # Absent => cleanObject[fieldNames[i + 1]] = rawEntity[i]
        /\ cleanObject["_id"] =
              IF IdField(mapper) \in PresentNames /\ Truthy(cleanObject[IdField(mapper)])
                THEN cleanObject[IdField(mapper)] ELSE ToString(index)

\* the spec's example: names [CODPROD, DESCRPROD], row {f0: "10", f1: "Widget"}
C10_Witness ==
    /\ fieldNames = <<"CODPROD", "DESCRPROD">>
    /\ rawEntity[0] = "10" /\ rawEntity[1] = "Widget"
    /\ mapper = "mapearEntidades"
    /\ cleanObject # NotMapped
    /\ DOMAIN cleanObject = {"CODPROD", "DESCRPROD", "_id"}
    /\ cleanObject["CODPROD"] = "10" /\ cleanObject["DESCRPROD"] = "Widget"


\* the entry of key k, if any, is the call whose fetcher was registered under
\* k, and that fetcher's finally callback has not run
EntryIsLive(k) ==
    pendingRequests[k] # NoCall =>
        /\ Op(pendingRequests[k]).key = k
        /\ Op(pendingRequests[k]).state \notin {"none", "finalised"}

\* C11: pendingRequests holds an entry for a key only while the operation
\* registered under it has not been finalised (the removal is the finally
\* reaction of the operation's promise, for a success and for a failure, with
\* or without joined callers); the finally removes the entry, and a call that
\* finds no entry for its key invokes its operation afresh.
C11_HandleLifecycle ==
    [][/\ \A k \in Keys : EntryIsLive(k)'
       /\ \A x \in CallIds :
             (Op(x).state = "settled" /\ Op(x)'.state = "finalised")
                => pendingRequests'[Op(x).key] = NoCall
       /\ \A x \in CallIds :
             (x \notin DOMAIN caller /\ x \in DOMAIN caller'
                /\ pendingRequests[caller'[x].key] = NoCall)
                => (caller'[x].promise = x /\ Op(x)'.state \notin {"none", "finalised"}
                    /\ pendingRequests'[caller'[x].key] = x)]_vars

\* an operation failed with a caller joined to it, its entry was removed, and
\* a later call with the same key runs an operation of its own
C11_Witness ==
    \E x, y, z \in CallIds :
        /\ Op(x).state = "finalised" /\ Op(x).result \notin {"ok", "pending"}
        /\ y # x /\ CallerOf(y).promise = x /\ CallerOf(y).joined
        /\ z # x /\ CallerOf(z).promise = z /\ CallerOf(z).key = Op(x).key
        /\ pendingRequests[Op(x).key] = z


\* C12: when an invalidarToken call completes it has deleted the credential
\* key and issued the delete of the lock key, so that neither key is in the
\* store as far as its deletes go (a key whose own delete the store rejected
\* aside); it returns normally in every case.
C12_InvalidarTokenPostcondition ==
    [][/\ (inval = "idle" /\ inval' = "delLock") => cred' = NoCred
       /\ (invalEnd' # invalEnd /\ invalEnd' # "none")
             => invalEnd' \in {"deleted", "lockDeleteFailed"}
       /\ (invalEnd' # invalEnd /\ invalEnd' = "deleted") => lock' = NoLock]_vars


IsClientError(r) == r.status >= 400 /\ r.status < 500 /\ ~IsAuthFailure(r)

\* C14: when the downstream answers an attempt of sankhya-api's executor with
\* a 4xx status other than 401 and 403, that attempt is the call's last, the
\* credential is not deleted for it, and the call fails at once with an error
\* that carries the downstream's status message.
C14_ClientErrorNotRetried ==
    \A r \in Reqs : \A n \in 1..Len(req[r].hist) :
        IsClientError(req[r].hist[n]) =>
            /\ n = Len(req[r].hist) /\ req[r].attempts = n
            /\ req[r].pc = "done" /\ req[r].result = "errRequestFailed"
            /\ req[r].hist[n].msg # "none" => req[r].message = req[r].hist[n].msg
            /\ req[r].deletes = Cardinality({k \in 1..n : IsAuthFailure(req[r].hist[k])})

\* a call whose retry after a 401 was answered 400 with a status message: it
\* failed with that message after the one credential delete the 401 caused
C14_Witness ==
    \E r \in Reqs :
        /\ Len(req[r].hist) = 2 /\ req[r].hist[1].status = 401
        /\ req[r].hist[2].status = 400 /\ req[r].hist[2].msg = "statusMessage"
        /\ req[r].pc = "done" /\ req[r].message = "statusMessage" /\ req[r].deletes = 1


\* C15: a cache-aside fetcher whose fetch failed has, when it throws, stored an
\* empty-result sentinel under the request's cache key with a TTL shorter than
\* the one it gives a successful result, and it throws the fetch's error.
C15_ErrorSentinel ==
    [][(fpc # "done" /\ fpc' = "done" /\ fdown' = "failed") =>
         /\ fresult' = "errDownstream"
         /\ cacheEntry'[fetcher].kind = "sentinel"
         /\ cacheEntry'[fetcher].ttl > 0 /\ cacheEntry'[fetcher].ttl < SuccessTTL(fetcher)]_vars


\* C16: a rejection of the logging call never changes a fetcher's outcome: a
\* fetch that the downstream answered ends with the data returned and cached
\* as a success, and a failed one ends with the fetch's error and, where the
\* fetcher stores one, its sentinel.
C16_LoggingBestEffort ==
    [][(fpc # "done" /\ fpc' = "done") =>
         /\ fdown' = "ok" => (fresult' = "data" /\ cacheEntry'[fetcher].kind = "data")
         /\ fdown' = "failed" =>
               /\ fresult' = "errDownstream"
               /\ SentinelTTL(fetcher) > 0 => cacheEntry'[fetcher].kind = "sentinel"]_vars

\* obterToken whose first read of the credential was rejected by the store
\* does not fail with the store's error
C17_ObterTokenTolerant ==
    \A i \in Inv : call[i].outcome # "errStore"

\* C17: a fetcher (or obterToken) whose get on the cache store was rejected
\* goes on as after a miss; it does not fail with the store's error.
C17_StoreFailureTolerance ==
    /\ C17_ObterTokenTolerant
    /\ fresult # "errStore"


\* C18: a token getter does not hand out a token that only the process-local
\* variable holds: whenever getSankhyaToken returns, the shared store holds
\* the token it returned.
C18_InProcessTokenAdvisory ==
    [][\A x \in DOMAIN op :
         (op[x].state = "token" /\ op'[x].state = "http")
            => (globalCachedToken' # 0 /\ redisGlobalToken' = globalCachedToken')]_vars

\* C19: no call of produtos-service's executor is left awaiting the promise
\* of its own fetcher, a state in which it can never settle and its in-flight
\* handle is never removed.
C19_DedupedExecutorTerminates ==
    \A x \in CallIds : ~AwaitsItself(x)

\* C20: the lock record is deleted by the invocation that holds it only: a
\* step that removes a held lock, other than the store expiring it, is a step
\* of its holder.
C20_OwnerOnlyRelease ==
    [][(lock.owner # 0 /\ lock' = NoLock /\ now' = now)
          => call'[lock.owner] # call[lock.owner]]_vars


\* C21: the delete that follows a 401/403 for token T removes the credential
\* holding T only: a valid credential with another token, stored after T by
\* another caller, is left in the store.
C21_InvalidatesRejectedOnly ==
    [][\A r \in Reqs :
         (req[r].pc = "authDel" /\ req'[r].pc # "authDel"
            /\ cred.token # 0 /\ cred.token # req[r].token
            /\ now < cred.storeExp /\ now < cred.expiresAt)
            => cred' = cred]_vars

\* C22: a call of sankhya-api's executor that failed with the session-expired
\* error had an earlier attempt answered 401/403, after which it deleted the
\* credential and retried: the attempt that ended it is not its first
\* authorization failure.
C22_SessionExpiredAfterRefresh ==
    \A r \in Reqs :
        req[r].result = "errSessionExpired"
            => \E n \in 1..(Len(req[r].hist) - 1) : IsAuthFailure(req[r].hist[n])


\* invocation i takes a step of its own and is not killed by it
Steps(i) == call'[i] # call[i] /\ call'[i].pc # "crashed"

\* C23: an obterToken call without forceRefresh whose first read found a
\* credential with now < expiresAt returns that token at once: it never went
\* near the lock, and the store's credential and lock, tokenPromise and the
\* number of login calls are what they were.
C23_FastPathNoSideEffects ==
    [][\A i \in Inv :
         (call[i].pc = "fastChk" /\ call[i].iife = 0 /\ ~call[i].force /\ Steps(i)
            /\ call[i].tokenData.token # 0 /\ now < call[i].tokenData.expiresAt)
            => /\ call'[i].pc = "done" /\ call'[i].outcome = "token"
               /\ call'[i].ret = call[i].tokenData.token
               /\ ~call'[i].acquired /\ ~call'[i].deleteIssued /\ call'[i].myLogin = 0
               /\ cred' = cred /\ lock' = lock
               /\ tokenPromise' = tokenPromise /\ loginCalls' = loginCalls]_vars

\* a call returned through the fast path while another invocation held the
\* lock and its renewal was registered in tokenPromise
C23_Witness ==
    \E i \in Inv :
        /\ call[i].pc = "done" /\ call[i].how = "fast" /\ call[i].outcome = "token"
        /\ ~call[i].acquired
        /\ lock.owner # 0 /\ lock.owner # i
        /\ tokenPromise[call[i].proc] # NoPromise

\* C24: an obterToken call without forceRefresh that holds the lock and whose
\* read of the credential found a valid one goes on to delete the lock and
\* return that credential's token; neither step calls the login endpoint or
\* writes the credential.
C24_DoubleCheckLocking ==
    [][\A i \in Inv :
         /\ (call[i].pc = "dblChk" /\ Steps(i)
               /\ call[i].tokenData.token # 0 /\ now < call[i].tokenData.expiresAt)
               => (call'[i].pc = "dblDel" /\ call'[i].tokenData = call[i].tokenData
                   /\ cred' = cred /\ loginCalls' = loginCalls /\ tokenPromise' = tokenPromise)
         /\ (call[i].pc = "dblDel" /\ Steps(i))
               => (lock' = NoLock /\ call'[i].outcome = "token"
                   /\ call'[i].ret = call[i].tokenData.token
                   /\ cred' = cred /\ loginCalls' = loginCalls)]_vars

\* a call returned, after its double-check, the token that another call's
\* login had stored, and made no login call itself
C24_Witness ==
    \E i, j \in Inv :
        /\ i # j
        /\ call[i].how = "double" /\ call[i].outcome = "token" /\ call[i].acquired
        /\ call[j].how = "login" /\ call[i].ret = call[j].ret
        /\ loginCalls = 1

\* C26: the lock loop is left without the lock only once 25 s have passed;
\* the call then reads the credential once and returns its token if it is
\* valid, else throws the lock-timeout error; the login endpoint is not
\* called and neither the lock nor the credential is written or deleted.
C26_LockWaitTimeout ==
    [][\A i \in Inv :
         /\ (call[i].pc # "toGet" /\ call'[i].pc = "toGet")
               => now - call[i].lockStart >= MAX_LOCK_WAIT
         /\ (call[i].pc = "toGet" /\ Steps(i))
               => (call'[i].pc = "toChk" /\ cred' = cred /\ lock' = lock /\ loginCalls' = loginCalls)
         /\ (call[i].pc = "toChk" /\ Steps(i))
               => /\ IF call[i].tokenData.token # 0 /\ now < call[i].tokenData.expiresAt
                       THEN call'[i].outcome = "token" /\ call'[i].ret = call[i].tokenData.token
                       ELSE call'[i].outcome = "errLockTimeout" /\ call'[i].ret = 0
                  /\ cred' = cred /\ lock' = lock /\ loginCalls' = loginCalls]_vars

\* a call failed with the lock-timeout error and the lock of another
\* invocation is still in the store
C26_Witness ==
    \E i \in Inv :
        /\ call[i].pc = "done" /\ call[i].outcome = "errLockTimeout" /\ ~call[i].acquired
        /\ lock.owner # 0 /\ lock.owner # i

\* a call returned the token that its read after the wait found
C26_TokenAfterWait ==
    \E i \in Inv :
        /\ call[i].pc = "done" /\ call[i].how = "timeout" /\ call[i].outcome = "token"
        /\ ~call[i].acquired /\ call[i].ret = cred.token


\* C25: the deletes of the credential on obterToken's error path (the one
\* before the error is thrown, and the forceRefresh one that a retry repeats)
\* leave a valid credential in the store.
C25_FailedRenewalKeepsCredential ==
    [][\A i \in Inv :
         (Steps(i) /\ cred.token # 0 /\ now < cred.storeExp /\ now < cred.expiresAt
            /\ (call[i].pc = "errDel" \/ (call[i].pc = "forceDel" /\ call[i].retry > 0)))
            => cred' = cred]_vars

\* C28: a login failure with a 5xx status is retried while the budget lasts
\* and ends in the service-unavailable error; any other login failure ends in
\* the authentication-failed error.
C28_LoginFailureClassification ==
    [][\A i \in Inv :
         /\ (call[i].pc = "catchDel" /\ Steps(i))
               => (call'[i].pc = "retrySleep"
                     <=> (call[i].loginErr \in {"http500", "http503"}
                            /\ call[i].retry < LOGIN_MAX_RETRIES))
         /\ (call[i].pc = "errDel" /\ Steps(i))
               => call'[i].outcome = IF call[i].loginErr \in {"http500", "http503"}
                                       THEN "errUnavailable" ELSE "errAuth"]_vars


\* C27: a top-level obterToken call whose logins keep failing sends at most
\* three login requests before it fails.
C27_LoginRetryBudget == loginCalls <= 3

\* C29: a login answered without a token is not retried: the catch block
\* deletes the lock and goes on to the error exit, which leaves no
\* credential in the store, resets tokenPromise and throws the
\* authentication-failed error; the call sends no further login request.
C29_MalformedLoginFatal ==
    [][\A i \in Inv :
         /\ (call[i].pc = "catchDel" /\ call[i].loginErr = "noToken" /\ Steps(i))
               => (call'[i].pc = "errDel" /\ lock' = NoLock
                   /\ cred' = cred /\ loginCalls' = loginCalls)
         /\ (call[i].pc = "errDel" /\ call[i].loginErr = "noToken" /\ Steps(i))
               => (call'[i].outcome = "errAuth" /\ call'[i].ret = 0
                   /\ call'[i].pc \in {"finallyDel", "done"}
                   /\ tokenPromise'[call[i].proc] = NoPromise
                   /\ cred' = NoCred /\ loginCalls' = loginCalls)
         /\ (call[i].outcome = "errAuth" /\ Steps(i))
               => (call'[i].outcome = "errAuth" /\ call'[i].pc \in {"finallyDel", "done"}
                   /\ loginCalls' = loginCalls /\ cred' = cred)]_vars

\* the login of a call's second attempt was answered without a token; the
\* lock is released and the call is about to leave through the error exit
C29_Witness ==
    \E i \in Inv :
        /\ call[i].pc = "errDel" /\ call[i].loginErr = "noToken"
        /\ call[i].retry = 1 /\ loginCalls = 2
        /\ lock = NoLock /\ cred = NoCred


\* C30: the request that follows a 401/403 for token T does not carry T.
C30_RetryUsesFreshToken ==
    \A r \in Reqs :
        (req[r].pc = "http" /\ req[r].rejected # 0) => req[r].token # req[r].rejected


\* C31: a call of sankhya-api's executor sends at most three requests,
\* whatever the downstream answers.
C31_BoundedAttempts ==
    \A r \in Reqs : req[r].attempts <= 3 /\ Len(req[r].hist) <= 3

\* a call ended after three requests answered 401, timeout and 503
C31_Witness ==
    \E r \in Reqs :
        /\ req[r].pc = "done" /\ req[r].attempts = 3
        /\ IsAuthFailure(req[r].hist[1])
        /\ req[r].hist[2].code = "ECONNABORTED"
        /\ req[r].hist[3].status = 503
        /\ req[r].result = "errUnavailable"

\* C38: the lock record is written to live 30 seconds.
C38_LockTTL ==
    [][\A i \in Inv :
         (call[i].pc = "lockSet" /\ Steps(i)) => lock'.storeExp = now + 30 * 1000]_vars


\* C34: a fetcher whose read of the cache found an entry returns that entry:
\* no request goes out, nothing is written to the cache, no in-flight handle
\* is registered and no token is obtained.
C34_CacheHitNoSideEffects ==
    [][(fpc = "cacheGet" /\ fpc' # "cacheGet" /\ cacheEntry[fetcher].kind # "none")
         => /\ fpc' = "done" /\ fresult' = cacheEntry[fetcher].kind
            /\ fdown' = "none" /\ cacheEntry' = cacheEntry
            /\ pendingRequests' = pendingRequests
            /\ globalCachedToken' = globalCachedToken /\ cred' = cred
            /\ loginCalls' = loginCalls]_vars

\* consultarProdutos has returned the entry that an earlier call stored
C34_Witness ==
    /\ fetcher = "consultarProdutos" /\ fpc = "done" /\ fdown = "none"
    /\ fresult = "data" /\ cacheEntry[fetcher].kind = "data"

\* C37: every entry that a fetcher writes to the store is given a
\* time-to-live of at most 3600, the store's unit being the second.
C37_ResponseTTLBound ==
    \A f \in Fetchers : cacheEntry[f].ttl <= 3600


\* C32: the empty result that a failed call stores never replaces a
\* successful result stored under the same key.
C32_SentinelKeepsGoodResult ==
    [][~(oentry = "data" /\ oentry' = "sentinel")]_vars

\* C33: consultarProdutos calls with the same parameters, one of which
\* started while the cache was empty and another was in flight, lead to one
\* outbound query.
C33_OneFetchPerKey ==
    (ofn = "consultarProdutos" /\ \E c \in OverlapCalls : OCall(c).overlap)
        => oqueries <= 1


\* C35: a consultarParceiros call that is given a team list, the empty list
\* included, queries with a filter on that team's sellers, so an empty team
\* never gets the list of all clients.
C35_TeamRestriction ==
    \A c \in ParCalls :
        (PCall(c).pc # "idle" /\ ~PCall(c).hit /\ PCall(c).args.hasEquipe)
            => /\ PCall(c).filter.kind = "equipe"
               /\ PCall(c).filter.sellers = {PCall(c).args.equipe[k] : k \in 1..Len(PCall(c).args.equipe)}

\* C36: two consultarParceiros calls with different codVendedor or
\* codVendedoresEquipe have different cache keys, whatever searchName and
\* searchCode are, and a call never returns a list that was stored for
\* another restriction.
C36_KeysSeparateIdentities ==
    /\ \A c, d \in ParCalls :
        (PCall(c).pc # "idle" /\ PCall(d).pc # "idle" /\ PCall(c).args # PCall(d).args)
            => PCall(c).key # PCall(d).key
    /\ \A c \in ParCalls :
        (PCall(c).pc = "done" /\ PCall(c).hit) => PCall(c).servedFor = PCall(c).args

\* two finished calls with different restrictions, the first with an empty
\* searchName between the key's colons, and a stored list
C36_Witness ==
    /\ PCall(1).pc = "done" /\ PCall(2).pc = "done"
    /\ PCall(1).args # PCall(2).args
    /\ \E k \in 1..Len(PCall(1).key) : k > 15 /\ PCall(1).key[k] = ":" /\ k < Len(PCall(1).key)
            /\ PCall(1).key[k + 1] = ":"
    /\ PCall(1).result = "data" /\ PCall(2).result = "data"
    /\ pcache # {}


\* C39: when store calls, login calls and timers settle, every obterToken
\* invocation returns or throws, also one that awaits another caller's
\* tokenPromise and one that retries after a failed login; once no
\* invocation of a process is running, that process's tokenPromise is null.
C39_ObterTokenTerminates ==
    /\ [](\A p \in Procs :
            (\A i \in Inv : call[i].proc = p => ~Live(i)) => tokenPromise[p] = NoPromise)
    /\ \A i \in Inv : Live(i) ~> (call[i].pc = "done")

\* both invocations have ended after a failed login: one through its own
\* retry, the other through the first one's tokenPromise
C39_Witness ==
    /\ \A i \in Inv : call[i].pc = "done"
    /\ loginFails > 0 /\ loginCalls > 1
    /\ \E i \in Inv : call[i].how = "promise"
    /\ \A p \in Procs : tokenPromise[p] = NoPromise

====
